---- MODULE Spec2Model ----
(***************************************************************************)
(* Pricing engine of InsuranceStack (apps/pricing-engine): the rate        *)
(* repository, the dynamic-rates feature flag and PricingService, which    *)
(* turns a QuoteRequest into a Quote; and, of the payments service         *)
(* (apps/payments-service), the processing of a payment.                   *)
(*                                                                         *)
(* Decimal values (Go float64) are exact rationals <<numerator,            *)
(* denominator>> in lowest terms with a positive denominator; IEEE-754     *)
(* rounding is not modelled.  Table keys are strings, as in the JSON rule  *)
(* file, and the integer <-> string conversions of the code are modelled   *)
(* digit by digit.                                                         *)
(***************************************************************************)
EXTENDS Integers, Sequences, FiniteSets, Bags, TLC

VARIABLES pricingRules, dynamicRates, call, kept, mu, goroutines, payments

vars == <<pricingRules, dynamicRates, call, kept, mu, goroutines, payments>>

(***************************************************************************)
(* Bounds of the model.                                                    *)
(***************************************************************************)
\* largest loyaltyYears a request carries
MaxLoyaltyYears == 10
\* largest claimsHistory a request carries
MaxClaimsHistory == 4
\* largest loyalty threshold the key parser recognises
MaxThreshold == 12
\* largest number of CalculateQuote calls in progress at once
MaxCallers == 2
\* the most nanoseconds that pass between two readings of the clock
MaxElapsed == 1

(***************************************************************************)
(* float64 arithmetic, as exact rationals.                                 *)
(***************************************************************************)
Abs(n) == IF n < 0 THEN -n ELSE n

RECURSIVE GCD(_, _)
GCD(a, b) == IF b = 0 THEN a ELSE GCD(b, a % b)

\* the rational n/d (d # 0) in lowest terms
Rat(n, d) ==
    LET s == IF d < 0 THEN -1 ELSE 1
        g == GCD(Abs(n), Abs(d))
    IN  <<(s * n) \div g, (s * d) \div g>>

Zero == Rat(0, 1)
One == Rat(1, 1)

\* a * b, reduced crosswise before multiplying
Mul(a, b) ==
    LET g == GCD(Abs(a[1]), b[2])
        h == GCD(Abs(b[1]), a[2])
    IN  Rat((a[1] \div g) * (b[1] \div h), (a[2] \div h) * (b[2] \div g))

\* a + b over the least common denominator
Add(a, b) ==
    LET g == GCD(a[2], b[2])
    IN  Rat(a[1] * (b[2] \div g) + b[1] * (a[2] \div g), (a[2] \div g) * b[2])

Neg(a) == <<-a[1], a[2]>>

Sub(a, b) == Add(a, Neg(b))

Greater(a, b) == a[1] * b[2] > b[1] * a[2]

(***************************************************************************)
(* Integer <-> string conversions.                                         *)
(***************************************************************************)
Digit == <<"0", "1", "2", "3", "4", "5", "6", "7", "8", "9">>

RECURSIVE NatToStr(_)
NatToStr(n) ==
    IF n < 10 THEN Digit[n + 1]
    ELSE NatToStr(n \div 10) \o Digit[(n % 10) + 1]

\* fmt.Sprintf("%d", n)
SprintfD(n) == IF n < 0 THEN "-" \o NatToStr(-n) ELSE NatToStr(n)

\* fmt.Sscanf(s, "%d", &requiredYears) on a variable that starts at 0: the
\* number a decimal key denotes, 0 when the key is not a number.  Keys are
\* canonical decimals of 0..MaxThreshold or words without digits.
DecimalKeys == [n \in 0..MaxThreshold |-> NatToStr(n)]

SscanfD(s) ==
    LET denoted == { n \in 0..MaxThreshold : DecimalKeys[n] = s }
    IN  IF denoted = {} THEN 0 ELSE CHOOSE n \in denoted : TRUE

(***************************************************************************)
(* Rule files (pricing-rules.json) the repository may load.                *)
(***************************************************************************)
NoTable == <<>>

\* the rules the README documents: its base rates and coverage tiers, with
\* age and risk multipliers, which it does not list, filled in
DocumentedBaseRates ==
    ("auto" :> [Base |-> Rat(800, 1),
                Coverage |-> ("250000" :> Rat(1, 1)) @@ ("300000" :> Rat(115, 100))
                             @@ ("400000" :> Rat(135, 100)) @@ ("500000" :> Rat(155, 100)),
                AgeMultiplier |-> ("18-24" :> Rat(3, 2)) @@ ("25-34" :> Rat(6, 5))
                             @@ ("35-49" :> Rat(1, 1)) @@ ("50-64" :> Rat(11, 10))
                             @@ ("65+" :> Rat(13, 10)),
                RiskMultiplier |-> ("1" :> Rat(4, 5)) @@ ("2" :> Rat(1, 1))
                             @@ ("3" :> Rat(6, 5)) @@ ("4" :> Rat(3, 2)) @@ ("5" :> Rat(2, 1))])
    @@
    ("home" :> [Base |-> Rat(1200, 1),
                Coverage |-> ("500000" :> Rat(1, 1)) @@ ("650000" :> Rat(12, 10))
                             @@ ("750000" :> Rat(14, 10)) @@ ("1000000" :> Rat(18, 10))
                             @@ ("1200000" :> Rat(22, 10)),
                AgeMultiplier |-> ("18-34" :> Rat(11, 10)) @@ ("35-49" :> Rat(1, 1))
                             @@ ("50-64" :> Rat(19, 20)) @@ ("65+" :> Rat(21, 20)),
                RiskMultiplier |-> ("1" :> Rat(9, 10)) @@ ("2" :> Rat(1, 1))
                             @@ ("3" :> Rat(11, 10)) @@ ("4" :> Rat(13, 10)) @@ ("5" :> Rat(3, 2))])
    @@
    ("life" :> [Base |-> Rat(500, 1),
                Coverage |-> ("250000" :> Rat(1, 1)) @@ ("500000" :> Rat(18, 10))
                             @@ ("750000" :> Rat(25, 10)) @@ ("1000000" :> Rat(32, 10)),
                AgeMultiplier |-> ("18-24" :> Rat(4, 5)) @@ ("25-34" :> Rat(1, 1))
                             @@ ("35-49" :> Rat(13, 10)) @@ ("50-64" :> Rat(2, 1))
                             @@ ("65+" :> Rat(3, 1)),
                RiskMultiplier |-> ("1" :> Rat(4, 5)) @@ ("2" :> Rat(1, 1))
                             @@ ("3" :> Rat(5, 4)) @@ ("4" :> Rat(3, 2)) @@ ("5" :> Rat(2, 1))])

DocumentedDiscounts ==
    [MultiPolicy |-> Rat(15, 100),
     LoyaltyYears |-> ("1" :> Rat(0, 1)) @@ ("2" :> Rat(5, 100)) @@ ("3" :> Rat(8, 100))
                      @@ ("5" :> Rat(12, 100)) @@ ("10" :> Rat(18, 100)),
     LowRisk |-> Rat(10, 100),
     PaperlessBilling |-> Rat(3, 100)]

DocumentedFactors ==
    [Seasonality |-> ("Q1" :> Rat(95, 100)) @@ ("Q2" :> Rat(1, 1))
                     @@ ("Q3" :> Rat(105, 100)) @@ ("Q4" :> Rat(102, 100)),
     MarketConditions |-> Rat(1, 1),
     ClaimsHistory |-> ("0" :> Rat(9, 10)) @@ ("1" :> Rat(1, 1))
                       @@ ("2" :> Rat(115, 100)) @@ ("3+" :> Rat(13, 10))]

\* a rule file with tables left out: no "life" rates, coverage, age, risk,
\* seasonality and claims-history entries missing, a loyalty table that is
\* not monotone and has a threshold of 0, and discounts that sum to more
\* than 1
SparseBaseRates ==
    ("auto" :> [Base |-> Rat(10, 1),
                Coverage |-> NoTable,
                AgeMultiplier |-> ("18-34" :> Rat(2, 1)),
                RiskMultiplier |-> NoTable])
    @@
    ("home" :> [Base |-> Rat(12, 1),
                Coverage |-> ("500000" :> Rat(2, 1)),
                AgeMultiplier |-> ("18-34" :> Rat(3, 2)) @@ ("25-34" :> Rat(5, 4)),
                RiskMultiplier |-> ("1" :> Rat(1, 2))])

SparseDiscounts ==
    [MultiPolicy |-> Rat(1, 2),
     LoyaltyYears |-> ("0" :> Rat(1, 10)) @@ ("2" :> Rat(2, 5)) @@ ("4" :> Rat(1, 5)),
     LowRisk |-> Rat(1, 2),
     PaperlessBilling |-> Rat(1, 4)]

SparseFactors ==
    [Seasonality |-> ("Q1" :> Rat(2, 1)) @@ ("Q3" :> Rat(1, 2)),
     MarketConditions |-> Rat(3, 2),
     ClaimsHistory |-> ("3+" :> Rat(2, 1))]

\* models.PricingRules after json.Unmarshal (Metadata is informational)
RuleFiles ==
    { [BaseRates |-> DocumentedBaseRates, Discounts |-> DocumentedDiscounts,
       DynamicPricing |-> [Enabled |-> e, Factors |-> DocumentedFactors]] : e \in BOOLEAN }
    \cup
    { [BaseRates |-> SparseBaseRates, Discounts |-> SparseDiscounts,
       DynamicPricing |-> [Enabled |-> e, Factors |-> SparseFactors]] : e \in BOOLEAN }

(***************************************************************************)
(* Repository: lookups in the loaded rules.  Each returns [val, err]; err  *)
(* is "nil" or the message of the Go error.                                *)
(***************************************************************************)
NoError == "nil"

GetBaseRateForPolicy(rules, policyType) ==
    IF policyType \notin DOMAIN rules.BaseRates
    THEN [val |-> Zero, err |-> "policy type " \o policyType \o " not found"]
    ELSE [val |-> rules.BaseRates[policyType].Base, err |-> NoError]

\* GetCoverageMultiplier failing on an amount that is no tier
GetCoverageMultiplierStrict(rules, policyType, coverageAmount) ==
    IF policyType \notin DOMAIN rules.BaseRates
    THEN [val |-> Zero, err |-> "policy type " \o policyType \o " not found"]
    ELSE LET rates == rules.BaseRates[policyType]
             coverageStr == SprintfD(coverageAmount)
         IN  IF coverageStr \notin DOMAIN rates.Coverage
             THEN [val |-> Zero, err |-> "coverage amount " \o coverageStr \o " not found"]
             ELSE [val |-> rates.Coverage[coverageStr], err |-> NoError]

\* GetCoverageMultiplier falling back to a configured tier on a miss
GetCoverageMultiplierSomeTier(rules, policyType, coverageAmount) ==
    IF policyType \notin DOMAIN rules.BaseRates
    THEN [val |-> Zero, err |-> "policy type " \o policyType \o " not found"]
    ELSE LET rates == rules.BaseRates[policyType]
             coverageStr == SprintfD(coverageAmount)
         IN  IF coverageStr \in DOMAIN rates.Coverage
             THEN [val |-> rates.Coverage[coverageStr], err |-> NoError]
             ELSE IF DOMAIN rates.Coverage = {} THEN [val |-> One, err |-> NoError]
             ELSE [val |-> rates.Coverage[CHOOSE tier \in DOMAIN rates.Coverage : TRUE],
                   err |-> NoError]

GetCoverageMultiplier(rules, policyType, coverageAmount) ==
    IF policyType \notin DOMAIN rules.BaseRates
    THEN [val |-> Zero, err |-> "policy type " \o policyType \o " not found"]
    ELSE LET rates == rules.BaseRates[policyType]
             coverageStr == SprintfD(coverageAmount)
         IN  IF coverageStr \notin DOMAIN rates.Coverage
             THEN [val |-> One, err |-> NoError]
             ELSE [val |-> rates.Coverage[coverageStr], err |-> NoError]

\* the switch of GetAgeMultiplier: the bracket of an age, "" below 18
AgeRange(age) ==
    CASE age >= 18 /\ age <= 24 -> "18-24"
      [] age >= 25 /\ age <= 34 -> "25-34"
      [] age >= 35 /\ age <= 49 -> "35-49"
      [] age >= 50 /\ age <= 64 -> "50-64"
      [] age >= 65 -> "65+"
      [] OTHER -> ""

\* altRanges of GetAgeMultiplier
AltRanges == ("18-24" :> "18-34") @@ ("25-34" :> "18-34")

\* GetAgeMultiplier trying the alternate range for every policy type
GetAgeMultiplierAltForAll(rules, policyType, age) ==
    IF policyType \notin DOMAIN rules.BaseRates
    THEN [val |-> Zero, err |-> "policy type " \o policyType \o " not found"]
    ELSE LET rates == rules.BaseRates[policyType]
             ageRange == AgeRange(age)
         IN  IF ageRange = "" THEN [val |-> One, err |-> NoError]
             ELSE IF ageRange \in DOMAIN rates.AgeMultiplier
             THEN [val |-> rates.AgeMultiplier[ageRange], err |-> NoError]
             ELSE IF /\ ageRange \in DOMAIN AltRanges
                     /\ AltRanges[ageRange] \in DOMAIN rates.AgeMultiplier
             THEN [val |-> rates.AgeMultiplier[AltRanges[ageRange]], err |-> NoError]
             ELSE [val |-> One, err |-> NoError]

GetAgeMultiplier(rules, policyType, age) ==
    IF policyType \notin DOMAIN rules.BaseRates
    THEN [val |-> Zero, err |-> "policy type " \o policyType \o " not found"]
    ELSE LET rates == rules.BaseRates[policyType]
             ageRange == AgeRange(age)
         IN  IF ageRange = "" THEN [val |-> One, err |-> NoError]
             ELSE IF ageRange \in DOMAIN rates.AgeMultiplier
             THEN [val |-> rates.AgeMultiplier[ageRange], err |-> NoError]
             ELSE IF /\ policyType = "home"
                     /\ ageRange \in DOMAIN AltRanges
                     /\ AltRanges[ageRange] \in DOMAIN rates.AgeMultiplier
             THEN [val |-> rates.AgeMultiplier[AltRanges[ageRange]], err |-> NoError]
             ELSE [val |-> One, err |-> NoError]

\* GetRiskMultiplier failing on a score that has no entry
GetRiskMultiplierStrict(rules, policyType, riskScore) ==
    IF policyType \notin DOMAIN rules.BaseRates
    THEN [val |-> Zero, err |-> "policy type " \o policyType \o " not found"]
    ELSE LET rates == rules.BaseRates[policyType]
             riskStr == SprintfD(riskScore)
         IN  IF riskStr \notin DOMAIN rates.RiskMultiplier
             THEN [val |-> Zero, err |-> "risk score " \o riskStr \o " not found"]
             ELSE [val |-> rates.RiskMultiplier[riskStr], err |-> NoError]

GetRiskMultiplier(rules, policyType, riskScore) ==
    IF policyType \notin DOMAIN rules.BaseRates
    THEN [val |-> Zero, err |-> "policy type " \o policyType \o " not found"]
    ELSE LET rates == rules.BaseRates[policyType]
             riskStr == SprintfD(riskScore)
         IN  IF riskStr \notin DOMAIN rates.RiskMultiplier
             THEN [val |-> One, err |-> NoError]
             ELSE [val |-> rates.RiskMultiplier[riskStr], err |-> NoError]

GetDiscounts(rules) == rules.Discounts

\* a Repository whose pricingRules is nil, and the nil *models.DynamicPricing
NoRules == [loaded |-> FALSE]
NoDynamicPricing == [nil |-> TRUE]

GetDynamicPricing(rules) ==
    IF rules = NoRules THEN NoDynamicPricing ELSE rules.DynamicPricing

\* a Go map value: not the table but a reference to it, here the Coverage
\* table the loaded rules hold for policyType
CoverageMap(policyType) == [coverageOf |-> policyType]

\* the table a map value refers to
Table(rules, map) == rules.BaseRates[map.coverageOf].Coverage

\* the orders in which a range over a map with these keys may visit them
RangeOrders(keys) ==
    { order \in [1..Cardinality(keys) -> keys] :
        \A i, j \in 1..Cardinality(keys) : i # j => order[i] # order[j] }

\* GetAllRates with the first policy type's base rate in every entry
GetAllRatesFirstBase(rules) ==
    { [i \in DOMAIN order |-> [PolicyType |-> order[i],
                               BaseRate |-> rules.BaseRates[order[1]].Base,
                               Coverage |-> CoverageMap(order[i])]]
      : order \in RangeOrders(DOMAIN rules.BaseRates) }

\* the slices GetAllRates may return, one per order of the range over
\* BaseRates: each models.Rate takes the base rate by value and the
\* Coverage map as it is, so it refers to the table of the rules
GetAllRates(rules) ==
    { [i \in DOMAIN order |-> [PolicyType |-> order[i],
                               BaseRate |-> rules.BaseRates[order[i]].Base,
                               Coverage |-> CoverageMap(order[i])]]
      : order \in RangeOrders(DOMAIN rules.BaseRates) }

(***************************************************************************)
(* Feature flags.                                                          *)
(***************************************************************************)
\* the environment variable FEATURE_DYNAMIC_RATES: set or not, and its value
Environments ==
    [set : {TRUE},
     value : {"", "true", "false", "1", "0", "TRUE", "T", "yes", "on", "enabled", "tru"}]
    \cup [set : {FALSE}, value : {""}]

\* os.Getenv: the value, empty for a variable that is not set
Getenv(env) == IF env.set THEN env.value ELSE ""

\* strconv.ParseBool
ParseBool(str) ==
    CASE str \in {"1", "t", "T", "TRUE", "true", "True"} -> [val |-> TRUE, err |-> NoError]
      [] str \in {"0", "f", "F", "FALSE", "false", "False"} -> [val |-> FALSE, err |-> NoError]
      [] OTHER -> [val |-> FALSE, err |-> "invalid syntax"]

\* Initialize taking every value that is not empty and not false for true
InitializeLenient(env) ==
    LET dynamicRatesStr == Getenv(env)
        parsed == ParseBool(dynamicRatesStr)
    IN  dynamicRatesStr # "" /\ (parsed.err # NoError \/ parsed.val)

\* features.Initialize: the dynamicRates of the Flags it returns
Initialize(env) ==
    LET dynamicRatesStr == Getenv(env)
        parsed == ParseBool(dynamicRatesStr)
    IN  IF dynamicRatesStr # "" /\ parsed.err = NoError THEN parsed.val ELSE FALSE

\* Flags.IsDynamicRatesEnabled on a nil Flags
IsDynamicRatesEnabledNil(flag) == FALSE

\* Flags.IsDynamicRatesEnabled on the Flags that main hands to the service
IsDynamicRatesEnabled(flag) == flag

(***************************************************************************)
(* PricingService.                                                         *)
(***************************************************************************)
\* validateRequest with the lower age limit off by one
validateRequestAgeOffByOne(req) ==
    IF req.PolicyType # "auto" /\ req.PolicyType # "home" /\ req.PolicyType # "life"
    THEN "invalid policy type: " \o req.PolicyType \o " (must be auto, home, or life)"
    ELSE IF req.CoverageAmount <= 0
    THEN "coverage amount must be greater than 0"
    ELSE IF req.CustomerAge <= 18 \/ req.CustomerAge > 120
    THEN "customer age must be between 18 and 120"
    ELSE IF req.RiskScore < 1 \/ req.RiskScore > 5
    THEN "risk score must be between 1 and 5"
    ELSE NoError

\* validateRequest checking the risk score before the age
validateRequestRiskFirst(req) ==
    IF req.PolicyType # "auto" /\ req.PolicyType # "home" /\ req.PolicyType # "life"
    THEN "invalid policy type: " \o req.PolicyType \o " (must be auto, home, or life)"
    ELSE IF req.CoverageAmount <= 0
    THEN "coverage amount must be greater than 0"
    ELSE IF req.RiskScore < 1 \/ req.RiskScore > 5
    THEN "risk score must be between 1 and 5"
    ELSE IF req.CustomerAge < 18 \/ req.CustomerAge > 120
    THEN "customer age must be between 18 and 120"
    ELSE NoError

validateRequest(req) ==
    IF req.PolicyType # "auto" /\ req.PolicyType # "home" /\ req.PolicyType # "life"
    THEN "invalid policy type: " \o req.PolicyType \o " (must be auto, home, or life)"
    ELSE IF req.CoverageAmount <= 0
    THEN "coverage amount must be greater than 0"
    ELSE IF req.CustomerAge < 18 \/ req.CustomerAge > 120
    THEN "customer age must be between 18 and 120"
    ELSE IF req.RiskScore < 1 \/ req.RiskScore > 5
    THEN "risk score must be between 1 and 5"
    ELSE NoError

\* getCurrentQuarter dividing the month itself by 3
getCurrentQuarterFromZero(month) == "Q" \o NatToStr((month \div 3) + 1)

\* getCurrentQuarter with the quarters one month late
getCurrentQuarterLate(month) ==
    CASE month >= 2 /\ month <= 4 -> "Q1"
      [] month >= 5 /\ month <= 7 -> "Q2"
      [] month >= 8 /\ month <= 10 -> "Q3"
      [] OTHER -> "Q4"

\* month is time.Now().Month()
getCurrentQuarter(month) ==
    CASE month >= 1 /\ month <= 3 -> "Q1"
      [] month >= 4 /\ month <= 6 -> "Q2"
      [] month >= 7 /\ month <= 9 -> "Q3"
      [] OTHER -> "Q4"

\* getClaimsHistoryKey without the "3+" bucket
getClaimsHistoryKeyUnbucketed(claims) == SprintfD(claims)

getClaimsHistoryKey(claims) ==
    CASE claims = 0 -> "0"
      [] claims = 1 -> "1"
      [] claims = 2 -> "2"
      [] OTHER -> "3+"

\* calculateDynamicMultiplier without the market-conditions factor
calculateDynamicMultiplierNoMarket(rules, month, req) ==
    LET dynamicPricing == GetDynamicPricing(rules)
    IN  IF ~dynamicPricing.Enabled THEN One
        ELSE LET quarter == getCurrentQuarter(month)
                 claimsKey == getClaimsHistoryKey(req.ClaimsHistory)
                 seasonal == IF quarter \in DOMAIN dynamicPricing.Factors.Seasonality
                             THEN Mul(One, dynamicPricing.Factors.Seasonality[quarter])
                             ELSE One
             IN  IF claimsKey \in DOMAIN dynamicPricing.Factors.ClaimsHistory
                 THEN Mul(seasonal, dynamicPricing.Factors.ClaimsHistory[claimsKey])
                 ELSE seasonal

\* calculateDynamicMultiplier without the test of dynamicPricing.Enabled
calculateDynamicMultiplierAlways(rules, month, req) ==
    LET dynamicPricing == GetDynamicPricing(rules)
        quarter == getCurrentQuarter(month)
        claimsKey == getClaimsHistoryKey(req.ClaimsHistory)
        seasonal == IF quarter \in DOMAIN dynamicPricing.Factors.Seasonality
                    THEN Mul(One, dynamicPricing.Factors.Seasonality[quarter])
                    ELSE One
        market == Mul(seasonal, dynamicPricing.Factors.MarketConditions)
    IN  IF claimsKey \in DOMAIN dynamicPricing.Factors.ClaimsHistory
        THEN Mul(market, dynamicPricing.Factors.ClaimsHistory[claimsKey])
        ELSE market

calculateDynamicMultiplier(rules, month, req) ==
    LET dynamicPricing == GetDynamicPricing(rules)
    IN  IF dynamicPricing = NoDynamicPricing \/ ~dynamicPricing.Enabled THEN One
        ELSE LET quarter == getCurrentQuarter(month)
                 claimsKey == getClaimsHistoryKey(req.ClaimsHistory)
                 seasonal == IF quarter \in DOMAIN dynamicPricing.Factors.Seasonality
                             THEN Mul(One, dynamicPricing.Factors.Seasonality[quarter])
                             ELSE One
                 market == Mul(seasonal, dynamicPricing.Factors.MarketConditions)
             IN  IF claimsKey \in DOMAIN dynamicPricing.Factors.ClaimsHistory
                 THEN Mul(market, dynamicPricing.Factors.ClaimsHistory[claimsKey])
                 ELSE market

\* CalculateQuote calling calculateDynamicMultiplier whatever the flag
DynamicMultiplierUnflagged(rules, flag, month, req) ==
    calculateDynamicMultiplier(rules, month, req)

\* lines 65-68 of CalculateQuote
DynamicMultiplier(rules, flag, month, req) ==
    IF IsDynamicRatesEnabled(flag) THEN calculateDynamicMultiplier(rules, month, req)
    ELSE One

\* the loop body without the comparison with the best discount so far
LoyaltyStepLastMet(years, discounts, yearsStr, applicableDiscount) ==
    IF years >= SscanfD(yearsStr)
    THEN discounts.LoyaltyYears[yearsStr]
    ELSE applicableDiscount

\* the loop body adding up the discounts of all thresholds met
LoyaltyStepSumMet(years, discounts, yearsStr, applicableDiscount) ==
    IF years >= SscanfD(yearsStr)
    THEN Add(applicableDiscount, discounts.LoyaltyYears[yearsStr])
    ELSE applicableDiscount

\* one iteration of the loop of getLoyaltyDiscount
LoyaltyStep(years, discounts, yearsStr, applicableDiscount) ==
    LET requiredYears == SscanfD(yearsStr)
        discount == discounts.LoyaltyYears[yearsStr]
    IN  IF years >= requiredYears /\ Greater(discount, applicableDiscount)
        THEN discount
        ELSE applicableDiscount

\* the loop of getLoyaltyDiscount over the keys not yet visited: Go ranges
\* over a map in an unspecified order, so the value is the set of the
\* results of all orders
RECURSIVE LoyaltyLoop(_, _, _, _)
LoyaltyLoop(years, discounts, remaining, applicableDiscount) ==
    IF remaining = {} THEN {applicableDiscount}
    ELSE UNION { LoyaltyLoop(years, discounts, remaining \ {yearsStr},
                             LoyaltyStep(years, discounts, yearsStr, applicableDiscount))
                 : yearsStr \in remaining }

getLoyaltyDiscount(years, discounts) ==
    LoyaltyLoop(years, discounts, DOMAIN discounts.LoyaltyYears, Zero)

\* calculateDiscount taking each discount against what the earlier ones left
DiscountTotalCompounded(req, discounts, adjustedRate, loyaltyDiscount) ==
    LET multi == IF req.MultiPolicy
                 THEN Add(Zero, Mul(adjustedRate, discounts.MultiPolicy))
                 ELSE Zero
        loyal == IF req.LoyaltyYears > 0
                 THEN Add(multi, Mul(Sub(adjustedRate, multi), loyaltyDiscount))
                 ELSE multi
        lowRisk == IF req.RiskScore = 1
                   THEN Add(loyal, Mul(Sub(adjustedRate, loyal), discounts.LowRisk))
                   ELSE loyal
    IN  IF req.PaperlessBill
        THEN Add(lowRisk, Mul(Sub(adjustedRate, lowRisk), discounts.PaperlessBilling))
        ELSE lowRisk

\* calculateDiscount, given the value getLoyaltyDiscount returned
DiscountTotal(req, discounts, adjustedRate, loyaltyDiscount) ==
    LET multi == IF req.MultiPolicy
                 THEN Add(Zero, Mul(adjustedRate, discounts.MultiPolicy))
                 ELSE Zero
        loyal == IF req.LoyaltyYears > 0
                 THEN Add(multi, Mul(adjustedRate, loyaltyDiscount))
                 ELSE multi
        lowRisk == IF req.RiskScore = 1
                   THEN Add(loyal, Mul(adjustedRate, discounts.LowRisk))
                   ELSE loyal
    IN  IF req.PaperlessBill
        THEN Add(lowRisk, Mul(adjustedRate, discounts.PaperlessBilling))
        ELSE lowRisk

\* the set of totals calculateDiscount may return (one per map order)
calculateDiscount(rules, req, adjustedRate) ==
    LET discounts == GetDiscounts(rules)
    IN  IF req.LoyaltyYears > 0
        THEN { DiscountTotal(req, discounts, adjustedRate, loyaltyDiscount)
               : loyaltyDiscount \in getLoyaltyDiscount(req.LoyaltyYears, discounts) }
        ELSE { DiscountTotal(req, discounts, adjustedRate, Zero) }

\* the base premium without the risk multiplier
BasePremiumNoRisk(baseRate, coverageMultiplier, ageMultiplier, riskMultiplier) ==
    Mul(Mul(baseRate, coverageMultiplier), ageMultiplier)

BasePremium(baseRate, coverageMultiplier, ageMultiplier, riskMultiplier) ==
    Mul(Mul(Mul(baseRate, coverageMultiplier), ageMultiplier), riskMultiplier)

AdjustedRate(basePremium, dynamicMultiplier) == Mul(basePremium, dynamicMultiplier)

\* the final premium with a floor of 0
FinalPremiumFloored(adjustedRate, discount) ==
    IF Greater(discount, adjustedRate) THEN Zero ELSE Sub(adjustedRate, discount)

FinalPremium(adjustedRate, discount) == Sub(adjustedRate, discount)

\* a nil *models.Quote
NoQuote == [nil |-> TRUE]

\* return nil, err after the repository and flag reads in trace
Failure(err, trace) == [quote |-> NoQuote, err |-> err, trace |-> trace]

\* the models.Quote of lines 79-97, before Stamped adds the identifier and
\* the timestamps
NewQuote(req, baseRate, coverageMultiplier, ageMultiplier, riskMultiplier, dynamicMultiplier, discount) ==
    LET basePremium == BasePremium(baseRate, coverageMultiplier, ageMultiplier,
                                   riskMultiplier)
        adjustedRate == AdjustedRate(basePremium, dynamicMultiplier)
    IN  [PolicyType |-> req.PolicyType,
         CoverageAmount |-> req.CoverageAmount,
         BaseRate |-> basePremium,
         AdjustedRate |-> adjustedRate,
         Discount |-> discount,
         FinalPremium |-> FinalPremium(adjustedRate, discount),
         Factors |-> [BaseMultiplier |-> baseRate,
                      CoverageMultiplier |-> coverageMultiplier,
                      AgeMultiplier |-> ageMultiplier,
                      RiskMultiplier |-> riskMultiplier,
                      DynamicMultiplier |-> dynamicMultiplier,
                      DiscountAmount |-> discount]]

\* a time.Time: seconds, and nanoseconds within the second
Instant(sec, nsec) == [sec |-> sec, nsec |-> nsec]

\* Time.Add of a duration of whole seconds
AddSeconds(t, seconds) == [t EXCEPT !.sec = @ + seconds]

\* 30 * 24 * time.Hour, in seconds
ThirtyDays == 30 * 24 * 3600

\* what time.Now() may return during one call
Instants == { Instant(0, nsec) : nsec \in 0..MaxElapsed }

\* what uuid.New().String() may return: 36 characters, here the first
\* eight and the rest
UUIDs ==
    { [head |-> "1b4e28ba", rest |-> "-2fa1-41d2-883f-0016d3cca427"],
      [head |-> "1b4e28ba", rest |-> "-9c5f-4e0b-a1d3-5b7e0f2c8d11"],
      [head |-> "6fa459ea", rest |-> "-ee8a-4ca4-894e-db77e160355e"] }

\* generateQuoteID: "Q-" and the first eight characters of a new UUID
generateQuoteID(uuid) == "Q-" \o uuid.head

\* what one CalculateQuote call takes from outside for the identifier and
\* the timestamps of its quote: a new UUID and the two readings of the
\* clock, now[1] for ValidUntil and then now[2] for CreatedAt
Stamps ==
    { stamp \in [uuid : UUIDs, now : Instants \X Instants] :
        stamp.now[1].nsec <= stamp.now[2].nsec }

\* one UUID and a clock that stands still
OneStamp ==
    { stamp \in Stamps : stamp.uuid.rest = "-2fa1-41d2-883f-0016d3cca427"
                         /\ stamp.now = <<Instant(0, 0), Instant(0, 0)>> }

\* the quote with the QuoteID, ValidUntil and CreatedAt of lines 80, 87, 88
Stamped(quote, stamp) ==
    IF quote = NoQuote THEN NoQuote
    ELSE quote @@ [QuoteID |-> generateQuoteID(stamp.uuid),
                   ValidUntil |-> AddSeconds(stamp.now[1], ThirtyDays),
                   CreatedAt |-> stamp.now[2]]

\* the repository and flag reads of a call that gets past the four lookups
RatingTrace(flag) ==
    <<"GetBaseRateForPolicy", "GetCoverageMultiplier", "GetAgeMultiplier",
      "GetRiskMultiplier", "IsDynamicRatesEnabled">>
    \o (IF IsDynamicRatesEnabled(flag) THEN <<"GetDynamicPricing">> ELSE <<>>)
    \o <<"GetDiscounts", "IsDynamicRatesEnabled">>

\* CalculateQuote after validation: lines 37-106
Rate(rules, flag, month, req) ==
    LET base == GetBaseRateForPolicy(rules, req.PolicyType)
        coverage == GetCoverageMultiplier(rules, req.PolicyType, req.CoverageAmount)
        age == GetAgeMultiplier(rules, req.PolicyType, req.CustomerAge)
        risk == GetRiskMultiplier(rules, req.PolicyType, req.RiskScore)
        dynamicMultiplier == DynamicMultiplier(rules, flag, month, req)
        adjustedRate == AdjustedRate(BasePremium(base.val, coverage.val, age.val, risk.val),
                                     dynamicMultiplier)
    IN  IF base.err # NoError
        THEN { Failure("failed to get base rate: " \o base.err,
                       SubSeq(RatingTrace(flag), 1, 1)) }
        ELSE IF coverage.err # NoError
        THEN { Failure("failed to get coverage multiplier: " \o coverage.err,
                       SubSeq(RatingTrace(flag), 1, 2)) }
        ELSE IF age.err # NoError
        THEN { Failure("failed to get age multiplier: " \o age.err,
                       SubSeq(RatingTrace(flag), 1, 3)) }
        ELSE IF risk.err # NoError
        THEN { Failure("failed to get risk multiplier: " \o risk.err,
                       SubSeq(RatingTrace(flag), 1, 4)) }
        ELSE { [quote |-> NewQuote(req, base.val, coverage.val, age.val, risk.val,
                                   dynamicMultiplier, discount),
                err |-> NoError,
                trace |-> RatingTrace(flag)]
               : discount \in calculateDiscount(rules, req, adjustedRate) }

\* CalculateQuote validating only after the lookups
CalculateQuoteLateValidation(rules, flag, month, req) ==
    IF validateRequest(req) # NoError
    THEN { Failure(validateRequest(req), result.trace)
           : result \in Rate(rules, flag, month, req) }
    ELSE Rate(rules, flag, month, req)

\* the set of results CalculateQuote may return: [quote, err] and, as
\* trace, the repository and flag reads the call made, in order
CalculateQuote(rules, flag, month, req) ==
    IF validateRequest(req) # NoError
    THEN { Failure(validateRequest(req), <<>>) }
    ELSE Rate(rules, flag, month, req)

(***************************************************************************)
(* Requests the HTTP layer decodes (customerId plays no part in rating).   *)
(***************************************************************************)
\* requests around the limits of validation, optional fields left out
ValidationProbes ==
    [PolicyType : {"auto", "home", "life", "boat"},
     CoverageAmount : {0, 250000},
     CustomerAge : {17, 18, 120, 121},
     RiskScore : {0, 1, 5, 6},
     MultiPolicy : {FALSE},
     LoyaltyYears : {0},
     PaperlessBill : {FALSE},
     ClaimsHistory : {0}]

\* requests that pass validation, over the inputs of the multipliers
MultiplierProbes ==
    [PolicyType : {"auto", "home", "life"},
     CoverageAmount : {250000, 500000},
     CustomerAge : {18, 30, 120},
     RiskScore : {1, 3},
     MultiPolicy : {FALSE},
     LoyaltyYears : {0},
     PaperlessBill : {FALSE},
     ClaimsHistory : 0..MaxClaimsHistory]

\* requests that pass validation, over the inputs of the discounts
DiscountProbes ==
    [PolicyType : {"auto", "home", "life"},
     CoverageAmount : {500000},
     CustomerAge : {30},
     RiskScore : {1, 3},
     MultiPolicy : BOOLEAN,
     LoyaltyYears : 0..MaxLoyaltyYears,
     PaperlessBill : BOOLEAN,
     ClaimsHistory : {0, MaxClaimsHistory}]

\* requests that pass validation, on and beside the coverage tiers
CoverageProbes ==
    [PolicyType : {"auto", "home", "life"},
     CoverageAmount : {1, 300000, 499999},
     CustomerAge : {30},
     RiskScore : {3},
     MultiPolicy : {FALSE},
     LoyaltyYears : {0},
     PaperlessBill : {FALSE},
     ClaimsHistory : {0}]

\* requests that pass validation, on both sides of every age boundary
AgeProbes ==
    [PolicyType : {"auto", "home", "life"},
     CoverageAmount : {250000},
     CustomerAge : {24, 25, 34, 35, 49, 50, 64, 65},
     RiskScore : {3},
     MultiPolicy : {FALSE},
     LoyaltyYears : {0},
     PaperlessBill : {FALSE},
     ClaimsHistory : {0}]

\* requests that pass validation, with the remaining risk scores
RiskProbes ==
    [PolicyType : {"auto", "home", "life"},
     CoverageAmount : {250000},
     CustomerAge : {30},
     RiskScore : {2, 4, 5},
     MultiPolicy : {FALSE},
     LoyaltyYears : {0},
     PaperlessBill : {FALSE},
     ClaimsHistory : {0}]

\* the request of the README's POST /quote example, with its claims
\* history of 0 and with one of 1
ExampleProbes ==
    [PolicyType : {"auto"},
     CoverageAmount : {500000},
     CustomerAge : {35},
     RiskScore : {2},
     MultiPolicy : {TRUE},
     LoyaltyYears : {5},
     PaperlessBill : {TRUE},
     ClaimsHistory : {0, 1}]

Requests ==
    ValidationProbes \cup MultiplierProbes \cup DiscountProbes
    \cup CoverageProbes \cup AgeProbes \cup RiskProbes \cup ExampleProbes

\* the requests of the runs that compare two calls
PairRequests ==
    { req \in DiscountProbes :
        /\ req.PolicyType \in {"auto", "life"} /\ req.RiskScore = 1
        /\ req.MultiPolicy /\ ~req.PaperlessBill /\ req.LoyaltyYears = 2
        /\ req.ClaimsHistory = MaxClaimsHistory }
    \cup
    { req \in ValidationProbes :
        /\ req.PolicyType = "auto" /\ req.CoverageAmount = 0
        /\ req.CustomerAge = 18 /\ req.RiskScore = 1 }

\* the request of the runs in which returned values are written to
AliasRequests == { req \in PairRequests : req.PolicyType = "auto" /\ req.CoverageAmount > 0 }

(***************************************************************************)
(* Locks.  mu["Repository"] is Repository.mu and mu["Flags"] is Flags.mu,  *)
(* each a sync.RWMutex: the number of readers holding it, whether a writer *)
(* holds it, and the number of writers that have called Lock and wait.  A  *)
(* waiting writer keeps new readers out.                                   *)
(***************************************************************************)
Locks == {"Repository", "Flags"}

Unlocked == [readers |-> 0, writer |-> FALSE, pending |-> 0]

\* the lock a method takes
LockOf(method) ==
    IF method \in {"IsDynamicRatesEnabled", "SetDynamicRates"} THEN "Flags"
    ELSE "Repository"

\* RLock returns at once
CanRLock(lock) == ~lock.writer /\ lock.pending = 0

\* a waiting Lock returns
CanLock(lock) == ~lock.writer /\ lock.readers = 0

RLocked(lock) == [lock EXCEPT !.readers = @ + 1]

\* a method that returns without RUnlock
RUnlockedNever(lock) == lock

RUnlocked(lock) == [lock EXCEPT !.readers = @ - 1]

(***************************************************************************)
(* Payments service: the payments of the repository.                       *)
(***************************************************************************)
PaymentStatusPending == "pending"
PaymentStatusCompleted == "completed"

\* a models.Payment (identifiers, amount and the other timestamps left
\* out); ProcessedDate is <<>> for nil and <<t>> for a pointer to t
Payment(type, status, processedDate) ==
    [Type |-> type, Status |-> status, ProcessedDate |-> processedDate]

\* Repository.payments of a service that holds no payment
NoPayments == <<>>

\* Repository.payments after loadPayments: one payment pending, one completed
LoadedPayments ==
    ("pay-001" :> Payment("premium", PaymentStatusPending, <<>>))
    @@ ("pay-002" :> Payment("premium", PaymentStatusCompleted, <<Instant(0, 0)>>))

\* the identifier CreatePayout gives its payment
PayoutID == "pay-003"

\* the identifiers that requests name
PaymentIDs == {"pay-001", "pay-002", PayoutID}

(***************************************************************************)
(* The running service.                                                    *)
(*   pricingRules  Repository.pricingRules, loaded by NewRepository        *)
(*   dynamicRates  Flags.dynamicRates                                      *)
(*   call          the POST /quote exchange being answered: the request,   *)
(*                 what CalculateQuote returned, and the flag value and    *)
(*                 month its reads saw; NoCall when idle                   *)
(*   kept          an earlier exchange a client has held on to             *)
(***************************************************************************)
NoCall == [idle |-> TRUE]

\* main: features.Initialize (FEATURE_DYNAMIC_RATES set or not), then
\* repository.NewRepository on one rule file
Init ==
    /\ pricingRules \in RuleFiles
    /\ dynamicRates \in { Initialize(env) : env \in Environments }
    /\ call = NoCall
    /\ kept = NoCall
    /\ payments = NoPayments
    /\ mu = [lock \in Locks |-> Unlocked]
    /\ goroutines = EmptyBag

\* net/http status codes the handlers answer with
StatusOK == 200
StatusBadRequest == 400

\* the status PricingHandler.GetQuote answers with, given CalculateQuote's err
QuoteStatus(err) == IF err # NoError THEN StatusBadRequest ELSE StatusOK

\* GetQuote with a CalculateQuote that stores the neutral multiplier under a
\* coverage amount it did not find
GetQuoteStoringDefault(requests, stamps) ==
    /\ call = NoCall
    /\ \E req \in requests, month \in 1..12 :
          \E result \in CalculateQuote(pricingRules, dynamicRates, month, req), stamp \in stamps :
             /\ call' = [req |-> req,
                         quote |-> Stamped(result.quote, stamp),
                         err |-> result.err,
                         status |-> QuoteStatus(result.err),
                         trace |-> result.trace,
                         flagSeen |-> dynamicRates,
                         monthSeen |-> month,
                         uuid |-> stamp.uuid]
             /\ pricingRules' =
                   IF /\ result.err = NoError
                      /\ SprintfD(req.CoverageAmount)
                            \notin DOMAIN pricingRules.BaseRates[req.PolicyType].Coverage
                   THEN [pricingRules EXCEPT
                           !["BaseRates"][req.PolicyType].Coverage =
                               @ @@ (SprintfD(req.CoverageAmount) :> One)]
                   ELSE pricingRules
    /\ UNCHANGED <<dynamicRates, kept, mu, goroutines, payments>>

\* PricingHandler.GetQuote: decode one of requests, CalculateQuote at a time
\* whose month is month, with a UUID and clock readings of stamps, and
\* answer with a status
GetQuote(requests, stamps) ==
    /\ call = NoCall
    /\ \E req \in requests, month \in 1..12 :
          \E result \in CalculateQuote(pricingRules, dynamicRates, month, req), stamp \in stamps :
             call' = [req |-> req,
                      quote |-> Stamped(result.quote, stamp),
                      err |-> result.err,
                      status |-> QuoteStatus(result.err),
                      trace |-> result.trace,
                      flagSeen |-> dynamicRates,
                      monthSeen |-> month,
                      uuid |-> stamp.uuid]
    /\ UNCHANGED <<pricingRules, dynamicRates, kept, mu, goroutines, payments>>

\* json.Marshal of a slice of models.Rate: every Coverage map is written
\* out as the table it refers to
MarshalRates(rules, rates) ==
    [i \in DOMAIN rates |-> [policyType |-> rates[i].PolicyType,
                             baseRate |-> rates[i].BaseRate,
                             coverage |-> Table(rules, rates[i].Coverage)]]

\* PricingHandler.GetRates: PricingService.GetRates returns the slice of
\* GetAllRates (rates; the timestamp is left out), which respondWithJSON
\* writes out (body) with status 200
GetRates ==
    /\ call = NoCall
    /\ \E rates \in GetAllRates(pricingRules) :
          call' = [rates |-> rates,
                   body |-> MarshalRates(pricingRules, rates),
                   status |-> StatusOK]
    /\ UNCHANGED <<pricingRules, dynamicRates, kept, mu, goroutines, payments>>

\* the exchange holds a slice that PricingService.GetRates returned
RatesReturned(exchange) == exchange # NoCall /\ "rates" \in DOMAIN exchange

\* PricingHandler.GetQuote: respondWithJSON / respondWithError ends the exchange
Respond ==
    /\ call # NoCall
    /\ call' = NoCall
    /\ UNCHANGED <<pricingRules, dynamicRates, kept, mu, goroutines, payments>>

\* Flags.SetDynamicRates(enabled)
SetDynamicRates(enabled) ==
    /\ dynamicRates' = enabled
    /\ UNCHANGED <<pricingRules, call, kept, mu, goroutines, payments>>

\* a client keeps the answer it received
Keep ==
    /\ call # NoCall
    /\ kept' = call
    /\ UNCHANGED <<pricingRules, dynamicRates, call, mu, goroutines, payments>>

Next ==
    \/ GetQuote(Requests, OneStamp)
    \/ Respond
    \/ \E enabled \in BOOLEAN : SetDynamicRates(enabled)

Spec == Init /\ [][Next]_vars

NextPair ==
    \/ GetQuote(PairRequests, OneStamp)
    \/ Respond
    \/ Keep
    \/ \E enabled \in BOOLEAN : SetDynamicRates(enabled)

SpecPair == Init /\ [][NextPair]_vars

\* FEATURE_DYNAMIC_RATES not set, empty, or not a boolean
DefaultEnvironments ==
    { env \in Environments :
        ~env.set \/ env.value = "" \/ ParseBool(env.value).err # NoError }

\* main started with one of DefaultEnvironments
InitDefault ==
    /\ pricingRules \in RuleFiles
    /\ dynamicRates \in { Initialize(env) : env \in DefaultEnvironments }
    /\ call = NoCall
    /\ kept = NoCall
    /\ payments = NoPayments
    /\ mu = [lock \in Locks |-> Unlocked]
    /\ goroutines = EmptyBag

\* the service as long as nobody calls SetDynamicRates(true)
NextDefault ==
    \/ GetQuote(Requests, OneStamp)
    \/ Respond
    \/ \E enabled \in {FALSE} : SetDynamicRates(enabled)

SpecDefault == InitDefault /\ [][NextDefault]_vars

\* quotes with every UUID and every pair of clock readings, and a client
\* that keeps answers
NextStamps ==
    \/ GetQuote(AliasRequests, Stamps)
    \/ Respond
    \/ Keep

SpecStamps == Init /\ [][NextStamps]_vars

\* both endpoints, with a client that keeps answers; nothing but requests
\* reaches the service
NextRates ==
    \/ GetQuote(PairRequests, OneStamp)
    \/ GetRates
    \/ Respond
    \/ Keep

SpecRates == Init /\ [][NextRates]_vars

\* the tier and the multiplier that code holding a returned Coverage map
\* assigns to it
WrittenTier == "500000"
WrittenMultiplier == Rat(7, 1)

\* code that holds the slice PricingService.GetRates returned assigns to an
\* entry of the Coverage map of one of its rates: the map is the one the
\* loaded rules hold, so the assignment lands in their table
WriteReturnedCoverage ==
    /\ RatesReturned(call)
    /\ \E i \in DOMAIN call.rates :
          pricingRules' =
              [pricingRules EXCEPT
                  !["BaseRates"][call.rates[i].Coverage.coverageOf].Coverage =
                      (WrittenTier :> WrittenMultiplier) @@ @]
    /\ UNCHANGED <<dynamicRates, call, kept, mu, goroutines, payments>>

\* both endpoints, and code in the process that writes to what GetRates
\* returned
NextAlias ==
    \/ GetQuote(AliasRequests, OneStamp)
    \/ GetRates
    \/ Respond
    \/ Keep
    \/ WriteReturnedCoverage

SpecAlias == Init /\ [][NextAlias]_vars

(***************************************************************************)
(* Calls running side by side.  Each goroutine runs one operation; a step  *)
(* is the entry into or the return from a method that takes a lock, since  *)
(* the code between two such steps touches only the goroutine's locals.    *)
(* goroutines is the bag of their states:                                  *)
(*   op      the operation: CalculateQuote, GetRates, SetDynamicRates or   *)
(*           loadPricingRules                                              *)
(*   arg     its argument: the request, the flag value, the rules read     *)
(*           from the file                                                 *)
(*   month   the month of time.Now() during the call                       *)
(*   pc      the index of the locking method it calls next                 *)
(*   at      "out" of any method, "waiting" in Lock, "in" a method         *)
(*           holding its lock, or "returned"                               *)
(*   locals  the local variables of CalculateQuote and GetRates            *)
(*   err     the error CalculateQuote returned                             *)
(***************************************************************************)
Readers == {"CalculateQuote", "GetRates"}

Writers == {"SetDynamicRates", "loadPricingRules"}

\* the locals of CalculateQuote before its first read (dynamicPricing and
\* discounts are what the pointers of those names point to), and body, the
\* response of GetRates; flagSet is not in the code: it is <<v>> if, when
\* the call began, SetDynamicRates(v) was the last to have returned and no
\* SetDynamicRates call was under way, and <<>> otherwise
NoLocals ==
    [baseRate |-> Zero, coverageMultiplier |-> Zero, ageMultiplier |-> Zero,
     riskMultiplier |-> Zero, dynamicRates |-> FALSE, dynamicPricing |-> NoTable,
     discounts |-> NoTable, loyaltyDiscount |-> Zero, err |-> NoError, body |-> <<>>,
     flagSet |-> <<>>]

\* the value the last SetDynamicRates call set, as <<v>>, if one has
\* returned and none is under way
FlagSet ==
    LET setters == { w \in BagToSet(goroutines) : w.op = "SetDynamicRates" }
    IN  IF /\ \E w \in setters : w.at = "returned"
           /\ \A w \in setters : w.at \in {"out", "returned"}
        THEN <<dynamicRates>>
        ELSE <<>>

Goroutine(op, arg, month) ==
    [op |-> op, arg |-> arg, month |-> month, pc |-> 1, at |-> "out",
     locals |-> NoLocals, err |-> NoError]

\* the locking methods an operation calls, in order; for CalculateQuote
\* GetDynamicPricing is among them once the flag has been read as on
Calls(g) ==
    CASE g.op = "CalculateQuote" -> RatingTrace(g.locals.dynamicRates)
      [] g.op = "GetRates" -> <<"GetAllRates">>
      [] OTHER -> <<g.op>>

Method(g) == Calls(g)[g.pc]

\* the message CalculateQuote wraps a getter's error in
Wrapping ==
    ("GetBaseRateForPolicy" :> "failed to get base rate: ")
    @@ ("GetCoverageMultiplier" :> "failed to get coverage multiplier: ")
    @@ ("GetAgeMultiplier" :> "failed to get age multiplier: ")
    @@ ("GetRiskMultiplier" :> "failed to get risk multiplier: ")

\* the locals after the method that g enters has read under its lock.
\* GetDynamicPricing and GetDiscounts return pointers into the rules
\* instance of the moment, which is never assigned to afterwards: what
\* calculateDynamicMultiplier and calculateDiscount read through them later
\* is what was there under the lock.  The loyalty discount, whose value may
\* depend on the order of a range over a map, is chosen with the table.
Read(g) ==
    LET req == g.arg
        l == g.locals
        method == Method(g)
    IN  CASE method = "GetBaseRateForPolicy" ->
               LET r == GetBaseRateForPolicy(pricingRules, req.PolicyType)
               IN  { [l EXCEPT !.baseRate = r.val, !.err = r.err, !.flagSet = FlagSet] }
          [] method = "GetCoverageMultiplier" ->
               LET r == GetCoverageMultiplier(pricingRules, req.PolicyType, req.CoverageAmount)
               IN  { [l EXCEPT !.coverageMultiplier = r.val, !.err = r.err] }
          [] method = "GetAgeMultiplier" ->
               LET r == GetAgeMultiplier(pricingRules, req.PolicyType, req.CustomerAge)
               IN  { [l EXCEPT !.ageMultiplier = r.val, !.err = r.err] }
          [] method = "GetRiskMultiplier" ->
               LET r == GetRiskMultiplier(pricingRules, req.PolicyType, req.RiskScore)
               IN  { [l EXCEPT !.riskMultiplier = r.val, !.err = r.err] }
          [] method = "IsDynamicRatesEnabled" ->
               IF g.pc = Len(Calls(g)) THEN { l }
               ELSE { [l EXCEPT !.dynamicRates = IsDynamicRatesEnabled(dynamicRates)] }
          [] method = "GetDynamicPricing" ->
               { [l EXCEPT !.dynamicPricing = GetDynamicPricing(pricingRules)] }
          [] method = "GetDiscounts" ->
               { [l EXCEPT !.discounts = GetDiscounts(pricingRules),
                           !.loyaltyDiscount = loyaltyDiscount]
                 : loyaltyDiscount \in
                       IF req.LoyaltyYears > 0
                       THEN getLoyaltyDiscount(req.LoyaltyYears, GetDiscounts(pricingRules))
                       ELSE {Zero} }
          [] method = "GetAllRates" ->
               { [l EXCEPT !.body = MarshalRates(pricingRules, rates)]
                 : rates \in GetAllRates(pricingRules) }

\* the quote a CalculateQuote call that returned no error made of its locals
ReturnedQuote(g) ==
    LET l == g.locals
        dynamicMultiplier ==
            IF l.dynamicRates
            THEN calculateDynamicMultiplier([DynamicPricing |-> l.dynamicPricing],
                                            g.month, g.arg)
            ELSE One
        adjustedRate ==
            AdjustedRate(BasePremium(l.baseRate, l.coverageMultiplier, l.ageMultiplier,
                                     l.riskMultiplier),
                         dynamicMultiplier)
    IN  NewQuote(g.arg, l.baseRate, l.coverageMultiplier, l.ageMultiplier,
                 l.riskMultiplier, dynamicMultiplier,
                 DiscountTotal(g.arg, l.discounts, adjustedRate, l.loyaltyDiscount))

\* g's state becomes h
Become(g, h) == goroutines' = (goroutines (-) SetToBag({g})) (+) SetToBag({h})

\* CalculateQuote returns the validation error before any lock is taken
Reject(g) ==
    /\ g.op = "CalculateQuote" /\ g.at = "out" /\ g.pc = 1
    /\ validateRequest(g.arg) # NoError
    /\ Become(g, [g EXCEPT !.at = "returned", !.err = validateRequest(g.arg)])
    /\ UNCHANGED <<pricingRules, dynamicRates, call, kept, mu, payments>>

\* a getter takes its read lock and reads
RLock(g) ==
    /\ g.op \in Readers /\ g.at = "out"
    /\ g.op = "CalculateQuote" => validateRequest(g.arg) = NoError
    /\ CanRLock(mu[LockOf(Method(g))])
    /\ mu' = [mu EXCEPT ![LockOf(Method(g))] = RLocked(@)]
    /\ \E locals \in Read(g) : Become(g, [g EXCEPT !.at = "in", !.locals = locals])
    /\ UNCHANGED <<pricingRules, dynamicRates, call, kept, payments>>

\* the getter returns (its deferred RUnlock runs), and the operation goes on
\* to its next method, or returns
RUnlock(g) ==
    /\ g.op \in Readers /\ g.at = "in"
    /\ mu' = [mu EXCEPT ![LockOf(Method(g))] = RUnlocked(@)]
    /\ Become(g, IF g.locals.err # NoError
                 THEN [g EXCEPT !.at = "returned",
                                !.err = Wrapping[Method(g)] \o g.locals.err]
                 ELSE IF g.pc = Len(Calls(g))
                 THEN [g EXCEPT !.at = "returned"]
                 ELSE [g EXCEPT !.at = "out", !.pc = @ + 1])
    /\ UNCHANGED <<pricingRules, dynamicRates, call, kept, payments>>

\* SetDynamicRates or loadPricingRules (its file read and parsed) calls Lock
Lock(g) ==
    /\ g.op \in Writers /\ g.at = "out"
    /\ mu' = [mu EXCEPT ![LockOf(g.op)].pending = @ + 1]
    /\ Become(g, [g EXCEPT !.at = "waiting"])
    /\ UNCHANGED <<pricingRules, dynamicRates, call, kept, payments>>

\* Lock returns: no reader and no writer holds the lock
Locked(g) ==
    /\ g.op \in Writers /\ g.at = "waiting"
    /\ CanLock(mu[LockOf(g.op)])
    /\ mu' = [mu EXCEPT ![LockOf(g.op)].pending = @ - 1, ![LockOf(g.op)].writer = TRUE]
    /\ Become(g, [g EXCEPT !.at = "in"])
    /\ UNCHANGED <<pricingRules, dynamicRates, call, kept, payments>>

\* the writer assigns and returns (its deferred Unlock runs)
Unlock(g) ==
    /\ g.op \in Writers /\ g.at = "in"
    /\ mu' = [mu EXCEPT ![LockOf(g.op)].writer = FALSE]
    /\ IF g.op = "SetDynamicRates"
       THEN dynamicRates' = g.arg /\ UNCHANGED pricingRules
       ELSE pricingRules' = g.arg /\ UNCHANGED dynamicRates
    /\ Become(g, [g EXCEPT !.at = "returned"])
    /\ UNCHANGED <<call, kept, payments>>

NextConcurrent ==
    \/ \E g \in BagToSet(goroutines) : Reject(g)
    \/ \E g \in BagToSet(goroutines) : RLock(g)
    \/ \E g \in BagToSet(goroutines) : RUnlock(g)
    \/ \E g \in BagToSet(goroutines) : Lock(g)
    \/ \E g \in BagToSet(goroutines) : Locked(g)
    \/ \E g \in BagToSet(goroutines) : Unlock(g)

\* the requests of the calls that run side by side: one that passes
\* validation and one that does not
ConcurrentRequests ==
    { req \in MultiplierProbes :
        /\ req.PolicyType = "home" /\ req.CoverageAmount = 500000
        /\ req.CustomerAge = 30 /\ req.RiskScore = 1 /\ req.ClaimsHistory = MaxClaimsHistory }
    \cup
    { req \in ValidationProbes :
        /\ req.PolicyType = "auto" /\ req.CoverageAmount = 0
        /\ req.CustomerAge = 18 /\ req.RiskScore = 1 }

\* the months in which they run
ConcurrentMonths == {11}

\* the service, one of loaded loaded, with callers CalculateQuote calls, a
\* GetRates call, a SetDynamicRates call and a loadPricingRules call about
\* to start, the file holding one of files
Start(callers, loaded, files) ==
    /\ pricingRules \in loaded
    /\ dynamicRates \in BOOLEAN
    /\ call = NoCall
    /\ kept = NoCall
    /\ payments = NoPayments
    /\ mu = [lock \in Locks |-> Unlocked]
    /\ \E req \in ConcurrentRequests, month \in ConcurrentMonths, file \in files :
          goroutines =
              [g \in {Goroutine("CalculateQuote", req, month)} |-> callers]
              (+) SetToBag({Goroutine("GetRates", <<>>, month),
                            Goroutine("SetDynamicRates", ~dynamicRates, month),
                            Goroutine("loadPricingRules", file, month)})

\* a reload of the file the rules were loaded from, unchanged, among
\* MaxCallers quote calls; every goroutine that can take a step eventually
\* takes one
InitLocks ==
    Start(MaxCallers, { rules \in RuleFiles : rules.DynamicPricing.Enabled }, {pricingRules})

SpecLocks == InitLocks /\ [][NextConcurrent]_vars /\ WF_vars(NextConcurrent)

\* MaxCallers quote calls among a SetDynamicRates(TRUE) and a
\* SetDynamicRates(FALSE) call
InitToggle ==
    /\ pricingRules \in RuleFiles
    /\ dynamicRates \in BOOLEAN
    /\ call = NoCall
    /\ kept = NoCall
    /\ payments = NoPayments
    /\ mu = [lock \in Locks |-> Unlocked]
    /\ \E req \in ConcurrentRequests, month \in ConcurrentMonths :
          goroutines =
              [g \in {Goroutine("CalculateQuote", req, month)} |-> MaxCallers]
              (+) SetToBag({Goroutine("SetDynamicRates", enabled, month)
                            : enabled \in BOOLEAN})

SpecToggle == InitToggle /\ [][NextConcurrent]_vars

\* a reload of the file after it has changed, during one quote call
InitReload == Start(1, RuleFiles, RuleFiles \ {pricingRules})

SpecReload == InitReload /\ [][NextConcurrent]_vars

(***************************************************************************)
(* Payments service: CreatePayout and ProcessPayment, each in a goroutine  *)
(* of its own.  A goroutine is a record                                    *)
(*   op   "ProcessPayment" or "CreatePayout"                               *)
(*   arg  the payment's identifier, and for CreatePayout what              *)
(*        IsInstantPayoutsEnabled returns                                  *)
(*   pc   the step of ProcessPayment it is about to take (1..4), or 0      *)
(*        before CreatePayout has stored its payment                       *)
(*   at   "out" or "returned", and err the error returned                  *)
(* The methods of the repository run under its lock and are steps; what    *)
(* ProcessPayment does between them, through the pointer that              *)
(* GetPaymentByID returned, is under no lock.                              *)
(***************************************************************************)
PaymentCall(op, arg, pc) == [op |-> op, arg |-> arg, pc |-> pc, at |-> "out", err |-> NoError]

\* the goroutine returns err
Return(g, err) == Become(g, [g EXCEPT !.at = "returned", !.err = err])

\* CreatePayout, lines 68-97: the payment is stored as pending, then
\* processed by the same goroutine if instant payouts are enabled
CreatePayment(g) ==
    /\ g.op = "CreatePayout" /\ g.at = "out" /\ g.pc = 0
    /\ payments' = [id \in DOMAIN payments \cup {g.arg.id} |->
                       IF id = g.arg.id
                       THEN Payment("payout", PaymentStatusPending, <<>>)
                       ELSE payments[id]]
    /\ IF g.arg.instant THEN Become(g, [g EXCEPT !.pc = 1]) ELSE Return(g, NoError)
    /\ UNCHANGED <<pricingRules, dynamicRates, call, kept, mu>>

\* ProcessPayment, line 102: Repository.GetPaymentByID
GetPaymentByID(g) ==
    /\ g.at = "out" /\ g.pc = 1
    /\ IF g.arg.id \in DOMAIN payments
       THEN Become(g, [g EXCEPT !.pc = 2])
       ELSE Return(g, "payment not found")
    /\ UNCHANGED <<pricingRules, dynamicRates, call, kept, mu, payments>>

\* ProcessPayment, lines 108-110: the status is read through the pointer
CheckPending(g) ==
    /\ g.at = "out" /\ g.pc = 2
    /\ IF payments[g.arg.id].Status # PaymentStatusPending
       THEN Return(g, "payment already processed")
       ELSE Become(g, [g EXCEPT !.pc = 3])
    /\ UNCHANGED <<pricingRules, dynamicRates, call, kept, mu, payments>>

\* ProcessPayment, lines 120-126: after the sleep, the payment the pointer
\* points to, which is the one in the repository, is set to completed
Complete(g) ==
    /\ g.at = "out" /\ g.pc = 3
    /\ \E now \in Instants :
          payments' = [payments EXCEPT ![g.arg.id].Status = PaymentStatusCompleted,
                                       ![g.arg.id].ProcessedDate = <<now>>]
    /\ Become(g, [g EXCEPT !.pc = 4])
    /\ UNCHANGED <<pricingRules, dynamicRates, call, kept, mu>>

\* ProcessPayment, lines 128-134: Repository.UpdatePayment stores the same
\* pointer again, and the payment is returned
UpdatePayment(g) ==
    /\ g.at = "out" /\ g.pc = 4
    /\ IF g.arg.id \in DOMAIN payments
       THEN Return(g, NoError)
       ELSE Return(g, "payment not found")
    /\ UNCHANGED <<pricingRules, dynamicRates, call, kept, mu, payments>>

NextPayments ==
    \/ \E g \in BagToSet(goroutines) : CreatePayment(g)
    \/ \E g \in BagToSet(goroutines) : GetPaymentByID(g)
    \/ \E g \in BagToSet(goroutines) : CheckPending(g)
    \/ \E g \in BagToSet(goroutines) : Complete(g)
    \/ \E g \in BagToSet(goroutines) : UpdatePayment(g)

\* the payments service (it has no pricing rules) with its payments loaded,
\* and about to start: MaxCallers requests to process one payment and a
\* CreatePayout call
InitPayments ==
    /\ pricingRules = NoTable
    /\ dynamicRates = FALSE
    /\ call = NoCall
    /\ kept = NoCall
    /\ mu = [lock \in Locks |-> Unlocked]
    /\ payments = LoadedPayments
    /\ \E id \in PaymentIDs, instant \in BOOLEAN :
          goroutines =
              [g \in {PaymentCall("ProcessPayment", [id |-> id], 1)} |-> MaxCallers]
              (+) SetToBag({PaymentCall("CreatePayout",
                                        [id |-> PayoutID, instant |-> instant], 0)})

SpecPayments == InitPayments /\ [][NextPayments]_vars

(***************************************************************************)
(* Properties.  What the statements say is written here on its own terms,  *)
(* not with the operators of the service.                                  *)
(***************************************************************************)
\* the exchange holds a quote
Quoted(exchange) == exchange # NoCall /\ exchange.quote # NoQuote

\* the request breaks one of the four rules of validation
ViolatesRule(req) ==
    \/ req.PolicyType \notin {"auto", "home", "life"}
    \/ req.CoverageAmount <= 0
    \/ req.CustomerAge < 18
    \/ req.CustomerAge > 120
    \/ req.RiskScore < 1
    \/ req.RiskScore > 5

\* the errors validation gives for a request
ValidationErrors(req) ==
    {"invalid policy type: " \o req.PolicyType \o " (must be auto, home, or life)",
     "coverage amount must be greater than 0",
     "customer age must be between 18 and 120",
     "risk score must be between 1 and 5"}

\* the largest of a non-empty set of decimals
MaxOf(S) == CHOOSE x \in S : \A y \in S : ~Greater(y, x)

\* the fractions of the loyalty thresholds that years meets
MetFractions(years, table) ==
    { table[k] : k \in { key \in DOMAIN table : SscanfD(key) <= years } }

\* loyalty selection as stated: the maximum over the met thresholds, 0 when
\* none is met
StatedLoyaltyFraction(years, table) ==
    IF MetFractions(years, table) = {} THEN Zero
    ELSE MaxOf(MetFractions(years, table))

\* loyalty selection as made: from one year on, the largest of 0 and the
\* fractions of the met thresholds; 0 for no years
LoyaltyFraction(years, table) ==
    IF years >= 1 THEN MaxOf({Zero} \cup MetFractions(years, table)) ELSE Zero

\* the multi-policy, low-risk and paperless fractions that apply
OtherFractions(req, discounts) ==
    Add(Add(IF req.MultiPolicy THEN discounts.MultiPolicy ELSE Zero,
            IF req.RiskScore = 1 THEN discounts.LowRisk ELSE Zero),
        IF req.PaperlessBill THEN discounts.PaperlessBilling ELSE Zero)

ApplicableFractions(req, discounts) ==
    Add(OtherFractions(req, discounts),
        LoyaltyFraction(req.LoyaltyYears, discounts.LoyaltyYears))

\* the part of a quote's discount that the loyalty term contributes
LoyaltyTerm(exchange) ==
    Sub(exchange.quote.Discount,
        Mul(exchange.quote.AdjustedRate,
            OtherFractions(exchange.req, pricingRules.Discounts)))

\* the calendar quarter of a month
QuarterOf(month) == "Q" \o NatToStr(((month - 1) \div 3) + 1)

\* the bucket of a claims count
BucketOf(claims) == IF claims >= 3 THEN "3+" ELSE NatToStr(claims)

\* a table's factor under a key, 1 when the key is absent
FactorOr1(table, key) == IF key \in DOMAIN table THEN table[key] ELSE One

\* seasonality x marketConditions x claims-history factor for an exchange
ThreeFactorProduct(exchange) ==
    LET factors == pricingRules.DynamicPricing.Factors
    IN  Mul(Mul(FactorOr1(factors.Seasonality, QuarterOf(exchange.monthSeen)),
                factors.MarketConditions),
            FactorOr1(factors.ClaimsHistory, BucketOf(exchange.req.ClaimsHistory)))

\* the four amounts of two quotes agree
SameAmounts(q1, q2) ==
    /\ q1.BaseRate = q2.BaseRate
    /\ q1.AdjustedRate = q2.AdjustedRate
    /\ q1.Discount = q2.Discount
    /\ q1.FinalPremium = q2.FinalPremium

\* C1: every quote has basePremium = baseRate x coverage x age x risk
\* multiplier, with the four values its Factors report, and adjustedRate =
\* basePremium x Factors.dynamicMultiplier
C1_PremiumIsProductOfFactors ==
    Quoted(call) =>
        LET q == call.quote
            f == call.quote.Factors
        IN  /\ q.BaseRate = Mul(Mul(Mul(f.BaseMultiplier, f.CoverageMultiplier),
                                    f.AgeMultiplier), f.RiskMultiplier)
            /\ q.AdjustedRate = Mul(q.BaseRate, f.DynamicMultiplier)

\* a quote whose five factors all differ from 1
C1_Witness ==
    /\ Quoted(call)
    /\ call.quote.Factors.CoverageMultiplier # One
    /\ call.quote.Factors.AgeMultiplier # One
    /\ call.quote.Factors.RiskMultiplier # One
    /\ call.quote.Factors.DynamicMultiplier # One

\* C2: every quote's discountAmount is adjustedRate x the sum of the
\* fractions that apply (multi-policy iff multiPolicy, the selected loyalty
\* fraction, low-risk iff riskScore = 1, paperless iff paperlessBill), each
\* term taken against adjustedRate itself
C2_DiscountIsAdditive ==
    Quoted(call) =>
        call.quote.Discount =
            Mul(call.quote.AdjustedRate,
                ApplicableFractions(call.req, pricingRules.Discounts))

\* a quote on which all four discounts apply
C2_Witness ==
    /\ Quoted(call)
    /\ call.req.MultiPolicy /\ call.req.PaperlessBill /\ call.req.RiskScore = 1
    /\ LoyaltyFraction(call.req.LoyaltyYears, pricingRules.Discounts.LoyaltyYears) # Zero
    /\ call.quote.Discount # Zero

\* C3 as stated: for every loyaltyYears >= 0 the loyalty fraction used in
\* the discount is the maximum over the thresholds <= loyaltyYears
C3_LoyaltyIsMaxOverMetThresholds ==
    Quoted(call) /\ call.req.LoyaltyYears >= 0 =>
        LoyaltyTerm(call) =
            Mul(call.quote.AdjustedRate,
                StatedLoyaltyFraction(call.req.LoyaltyYears,
                                      pricingRules.Discounts.LoyaltyYears))

\* C3 as amended: for every loyaltyYears >= 1 the loyalty fraction used in
\* the discount is the largest of 0 and the fractions of the thresholds <=
\* loyaltyYears, and for loyaltyYears = 0 it is 0 whatever the table holds
C3_LoyaltyIsMaxFromOneYear ==
    Quoted(call) /\ call.req.LoyaltyYears >= 0 =>
        LoyaltyTerm(call) =
            Mul(call.quote.AdjustedRate,
                IF call.req.LoyaltyYears >= 1
                THEN MaxOf({Zero} \cup MetFractions(call.req.LoyaltyYears,
                                                    pricingRules.Discounts.LoyaltyYears))
                ELSE Zero)

\* the documented table at 7 years gives 0.12
C3_Witness ==
    /\ Quoted(call)
    /\ pricingRules.Discounts = DocumentedDiscounts
    /\ call.req.LoyaltyYears = 7
    /\ LoyaltyTerm(call) = Mul(call.quote.AdjustedRate, Rat(12, 100))

\* C4: every quote's finalPremium is adjustedRate - discountAmount with no
\* floor: it is negative when the applicable fractions sum to more than 1
\* (of a positive adjustedRate)
C4_FinalPremiumHasNoFloor ==
    Quoted(call) =>
        /\ call.quote.FinalPremium = Sub(call.quote.AdjustedRate, call.quote.Discount)
        /\ ( /\ Greater(ApplicableFractions(call.req, pricingRules.Discounts), One)
             /\ Greater(call.quote.AdjustedRate, Zero)
             => Greater(Zero, call.quote.FinalPremium) )

\* a quote with a negative final premium
C4_Witness ==
    /\ Quoted(call)
    /\ Greater(ApplicableFractions(call.req, pricingRules.Discounts), One)
    /\ Greater(Zero, call.quote.FinalPremium)

\* C5: a request is rejected by validation iff it breaks one of the rules
\* (policyType not auto/home/life, coverageAmount <= 0, customerAge outside
\* 18..120, riskScore outside 1..5)
C5_RejectedIffRuleViolated ==
    call # NoCall =>
        (call.err \in ValidationErrors(call.req) <=> ViolatesRule(call.req))

\* age 121 alone is rejected
C5_Witness ==
    /\ call # NoCall
    /\ call.req.PolicyType = "life" /\ call.req.CoverageAmount > 0
    /\ call.req.CustomerAge = 121 /\ call.req.RiskScore = 5
    /\ call.err = "customer age must be between 18 and 120"

\* C6: a request that fails validation gets the validation error and no
\* quote, and the call reads neither the rate tables nor the feature flag
C6_InvalidRequestReadsNothing ==
    call # NoCall /\ ViolatesRule(call.req) =>
        /\ call.quote = NoQuote
        /\ call.err \in ValidationErrors(call.req)
        /\ call.trace = <<>>

\* a request with an unsupported policy type was answered
C6_Witness ==
    /\ call # NoCall
    /\ call.req.PolicyType = "boat"
    /\ call.quote = NoQuote
    /\ call.err # NoError

\* C7 as stated: whenever the configuration has dynamicPricing.enabled, the
\* dynamicMultiplier of every quote is the product of the three factors
C7_EnabledConfigGivesProduct ==
    Quoted(call) /\ pricingRules.DynamicPricing.Enabled =>
        call.quote.Factors.DynamicMultiplier = ThreeFactorProduct(call)

\* C7 as amended: whenever the configuration has dynamicPricing.enabled and
\* the dynamic-rates flag is on when the call reads it, the dynamicMultiplier
\* of the quote is the product of the three factors
C7_EnabledConfigAndFlagGiveProduct ==
    Quoted(call) /\ pricingRules.DynamicPricing.Enabled /\ call.flagSeen =>
        call.quote.Factors.DynamicMultiplier = ThreeFactorProduct(call)

\* a quote under an enabled configuration and flag whose three factors are
\* all configured and all differ from 1
C7_Witness ==
    /\ Quoted(call)
    /\ pricingRules.DynamicPricing.Enabled /\ call.flagSeen
    /\ QuarterOf(call.monthSeen) \in DOMAIN pricingRules.DynamicPricing.Factors.Seasonality
    /\ pricingRules.DynamicPricing.Factors.Seasonality[QuarterOf(call.monthSeen)] # One
    /\ pricingRules.DynamicPricing.Factors.MarketConditions # One
    /\ BucketOf(call.req.ClaimsHistory) \in DOMAIN pricingRules.DynamicPricing.Factors.ClaimsHistory
    /\ pricingRules.DynamicPricing.Factors.ClaimsHistory[BucketOf(call.req.ClaimsHistory)] # One

\* C8: when the configuration has dynamic pricing disabled, every quote has
\* dynamicMultiplier 1 and adjustedRate equal to basePremium
C8_DisabledConfigIsNeutral ==
    Quoted(call) /\ ~pricingRules.DynamicPricing.Enabled =>
        /\ call.quote.Factors.DynamicMultiplier = One
        /\ call.quote.AdjustedRate = call.quote.BaseRate

\* a quote under a disabled configuration, computed with the flag on, whose
\* tables would have given a product other than 1
C8_Witness ==
    /\ Quoted(call)
    /\ ~pricingRules.DynamicPricing.Enabled /\ call.flagSeen
    /\ ThreeFactorProduct(call) # One

\* C9 as stated: two calls with the same request, under the same rules and
\* the same flag setting, return the same four amounts whenever they are made
C9_SameRequestSameAmounts ==
    /\ Quoted(call) /\ Quoted(kept)
    /\ call.req = kept.req /\ call.flagSeen = kept.flagSeen
    => SameAmounts(call.quote, kept.quote)

\* C9 as amended: two calls with the same request, under the same rules and
\* the same flag setting, made in the same calendar quarter, return the same
\* four amounts
C9_SameRequestSameQuarterSameAmounts ==
    /\ Quoted(call) /\ Quoted(kept)
    /\ call.req = kept.req /\ call.flagSeen = kept.flagSeen
    /\ QuarterOf(call.monthSeen) = QuarterOf(kept.monthSeen)
    => SameAmounts(call.quote, kept.quote)

\* two quotes for one request, made in two months of one quarter with
\* dynamic pricing applied
C9_Witness ==
    /\ Quoted(call) /\ Quoted(kept)
    /\ call.req = kept.req
    /\ call.flagSeen /\ kept.flagSeen /\ pricingRules.DynamicPricing.Enabled
    /\ call.monthSeen # kept.monthSeen
    /\ QuarterOf(call.monthSeen) = QuarterOf(kept.monthSeen)
    /\ call.quote.Factors.DynamicMultiplier # One

\* C10: a valid request whose policy type has a base-rate entry gets a
\* quote and no error, with every field of Factors set, whatever entries the
\* other tables lack
C10_ValidRequestWithBaseRateIsQuoted ==
    /\ call # NoCall /\ ~ViolatesRule(call.req)
    /\ call.req.PolicyType \in DOMAIN pricingRules.BaseRates
    => /\ call.err = NoError
       /\ call.quote # NoQuote
       /\ DOMAIN call.quote.Factors =
              {"BaseMultiplier", "CoverageMultiplier", "AgeMultiplier",
               "RiskMultiplier", "DynamicMultiplier", "DiscountAmount"}
       /\ \A field \in DOMAIN call.quote.Factors :
              call.quote.Factors[field][2] > 0

\* a quote made although the coverage, risk, seasonality and claims-history
\* entries of the request are all missing
C10_Witness ==
    /\ Quoted(call)
    /\ call.flagSeen /\ pricingRules.DynamicPricing.Enabled
    /\ LET rates == pricingRules.BaseRates[call.req.PolicyType]
           factors == pricingRules.DynamicPricing.Factors
       IN  /\ SprintfD(call.req.CoverageAmount) \notin DOMAIN rates.Coverage
           /\ SprintfD(call.req.RiskScore) \notin DOMAIN rates.RiskMultiplier
           /\ QuarterOf(call.monthSeen) \notin DOMAIN factors.Seasonality
           /\ BucketOf(call.req.ClaimsHistory) \notin DOMAIN factors.ClaimsHistory

\* C11 as stated: a request that passes validation but whose policy type has
\* no base-rate entry gets no quote and an error that is not a validation
\* error, answered as a server-side failure (status 5xx), not as a client
\* error (4xx)
C11_MissingBaseRateIsServerFailure ==
    /\ call # NoCall /\ ~ViolatesRule(call.req)
    /\ call.req.PolicyType \notin DOMAIN pricingRules.BaseRates
    => /\ call.quote = NoQuote
       /\ call.err # NoError
       /\ call.err \notin ValidationErrors(call.req)
       /\ call.status >= 500 /\ call.status <= 599

\* a valid life request under rules without life rates is answered with no
\* quote and the base-rate error
C11_Witness ==
    /\ call # NoCall /\ ~ViolatesRule(call.req)
    /\ call.req.PolicyType = "life"
    /\ "life" \notin DOMAIN pricingRules.BaseRates
    /\ call.quote = NoQuote
    /\ call.err = "failed to get base rate: policy type life not found"

\* a valid request whose policy type the loaded rules configure was answered
ConfiguredCall(exchange) ==
    /\ exchange # NoCall /\ ~ViolatesRule(exchange.req)
    /\ exchange.req.PolicyType \in DOMAIN pricingRules.BaseRates

Brackets ==
    { [key |-> "18-24", from |-> 18, to |-> 24],
      [key |-> "25-34", from |-> 25, to |-> 34],
      [key |-> "35-49", from |-> 35, to |-> 49],
      [key |-> "50-64", from |-> 50, to |-> 64],
      [key |-> "65+", from |-> 65, to |-> 120] }

\* the brackets an age falls in
BracketsOf(age) == { b.key : b \in { c \in Brackets : c.from <= age /\ age <= c.to } }

\* the age multiplier as stated, for an age in exactly one bracket
StatedAgeMultiplier(policyType, age, table) ==
    LET bracket == CHOOSE key \in BracketsOf(age) : TRUE
    IN  IF bracket \in DOMAIN table THEN table[bracket]
        ELSE IF /\ policyType = "home"
                /\ bracket \in {"18-24", "25-34"}
                /\ "18-34" \in DOMAIN table
        THEN table["18-34"]
        ELSE One

\* C13: every age in 18..120 falls in exactly one of the five brackets, and
\* the age multiplier is the bracket's value if configured, else for home and
\* the brackets 18-24 and 25-34 the value under "18-34" if configured, else 1
C13_AgeMultiplierByBracket ==
    ConfiguredCall(call) =>
        /\ Cardinality(BracketsOf(call.req.CustomerAge)) = 1
        /\ call.err = NoError
        /\ call.quote.Factors.AgeMultiplier =
              StatedAgeMultiplier(call.req.PolicyType, call.req.CustomerAge,
                                  pricingRules.BaseRates[call.req.PolicyType].AgeMultiplier)

\* a home quote at age 24 takes the "18-34" value, no "18-24" value being
\* configured
C13_Witness ==
    /\ Quoted(call)
    /\ call.req.PolicyType = "home" /\ call.req.CustomerAge = 24
    /\ "18-24" \notin DOMAIN pricingRules.BaseRates["home"].AgeMultiplier
    /\ "18-34" \in DOMAIN pricingRules.BaseRates["home"].AgeMultiplier
    /\ call.quote.Factors.AgeMultiplier = pricingRules.BaseRates["home"].AgeMultiplier["18-34"]
    /\ call.quote.Factors.AgeMultiplier # One

\* C14: for a configured policy type the risk multiplier is the value
\* configured under the risk score written in decimal, exactly 1 when that
\* key is absent, and the lookup gives no error
C14_RiskIsConfiguredOrOne ==
    ConfiguredCall(call) =>
        LET table == pricingRules.BaseRates[call.req.PolicyType].RiskMultiplier
            score == NatToStr(call.req.RiskScore)
        IN  /\ call.err = NoError
            /\ call.quote.Factors.RiskMultiplier =
                  IF score \in DOMAIN table THEN table[score] ELSE One

\* a quote for a risk score the table lacks, with multiplier 1
C14_Witness ==
    /\ Quoted(call)
    /\ call.req.RiskScore = 4
    /\ pricingRules.BaseRates[call.req.PolicyType].RiskMultiplier # NoTable
    /\ "4" \notin DOMAIN pricingRules.BaseRates[call.req.PolicyType].RiskMultiplier
    /\ call.quote.Factors.RiskMultiplier = One

\* the quarter of each month of the year, as stated
StatedQuarter ==
    <<"Q1", "Q1", "Q1", "Q2", "Q2", "Q2", "Q3", "Q3", "Q3", "Q4", "Q4", "Q4">>

\* C15: when dynamic pricing applies, the seasonality factor is the one
\* configured for the quarter of the month of the calculation (1-3 Q1, 4-6
\* Q2, 7-9 Q3, 10-12 Q4), and a quarter without an entry contributes 1
C15_SeasonalityByQuarter ==
    Quoted(call) /\ pricingRules.DynamicPricing.Enabled /\ call.flagSeen =>
        LET factors == pricingRules.DynamicPricing.Factors
            quarter == StatedQuarter[call.monthSeen]
            others == Mul(factors.MarketConditions,
                          FactorOr1(factors.ClaimsHistory, BucketOf(call.req.ClaimsHistory)))
        IN  /\ quarter \in DOMAIN factors.Seasonality
                  => call.quote.Factors.DynamicMultiplier =
                         Mul(factors.Seasonality[quarter], others)
            /\ quarter \notin DOMAIN factors.Seasonality
                  => call.quote.Factors.DynamicMultiplier = others

\* a quote made in December (Q4) under rules with entries for Q1 and Q3 only
C15_Witness ==
    /\ Quoted(call)
    /\ pricingRules.DynamicPricing.Enabled /\ call.flagSeen
    /\ call.monthSeen = 12
    /\ DOMAIN pricingRules.DynamicPricing.Factors.Seasonality = {"Q1", "Q3"}
    /\ call.req.ClaimsHistory = 0
    /\ call.quote.Factors.DynamicMultiplier = pricingRules.DynamicPricing.Factors.MarketConditions

\* the bucket of a claims count, as stated
StatedBucket(claims) ==
    CASE claims = 0 -> "0"
      [] claims = 1 -> "1"
      [] claims = 2 -> "2"
      [] claims >= 3 -> "3+"

\* C16: when dynamic pricing applies, the claims-history factor is the one
\* configured for the bucket of the request's claimsHistory (0, 1, 2, and
\* "3+" for every count >= 3), and a bucket without an entry contributes 1
C16_ClaimsFactorByBucket ==
    Quoted(call) /\ pricingRules.DynamicPricing.Enabled /\ call.flagSeen =>
        LET factors == pricingRules.DynamicPricing.Factors
            bucket == StatedBucket(call.req.ClaimsHistory)
            others == Mul(FactorOr1(factors.Seasonality, QuarterOf(call.monthSeen)),
                          factors.MarketConditions)
        IN  /\ bucket \in DOMAIN factors.ClaimsHistory
                  => call.quote.Factors.DynamicMultiplier =
                         Mul(others, factors.ClaimsHistory[bucket])
            /\ bucket \notin DOMAIN factors.ClaimsHistory
                  => call.quote.Factors.DynamicMultiplier = others

\* a quote for more than 3 claims that takes the factor of "3+"
C16_Witness ==
    /\ Quoted(call)
    /\ pricingRules.DynamicPricing.Enabled /\ call.flagSeen
    /\ call.req.ClaimsHistory > 3
    /\ call.monthSeen = 5
    /\ "Q2" \notin DOMAIN pricingRules.DynamicPricing.Factors.Seasonality
    /\ call.quote.Factors.DynamicMultiplier =
          Mul(pricingRules.DynamicPricing.Factors.MarketConditions,
              pricingRules.DynamicPricing.Factors.ClaimsHistory["3+"])

\* the exchange is an answered POST /quote
QuoteAnswered(exchange) == exchange # NoCall /\ "req" \in DOMAIN exchange

\* the exchange is an answered GET /rates
RatesAnswered(exchange) == exchange # NoCall /\ "body" \in DOMAIN exchange

\* the rates of a GET /rates body, as a set
RateSet(body) == { body[i] : i \in DOMAIN body }

\* C20: CalculateQuote, succeeding or failing, leaves the loaded rules and
\* the dynamic-rates flag as they are: GET /rates gives the same set of rates
\* before and after any sequence of quote calls, and two quote calls see the
\* same flag
C20_QuoteCallsLeaveRatesAndFlag ==
    /\ RatesAnswered(kept) =>
          /\ RatesAnswered(call) => RateSet(call.body) = RateSet(kept.body)
          /\ \A rates \in GetAllRates(pricingRules) :
                RateSet(MarshalRates(pricingRules, rates)) = RateSet(kept.body)
    /\ QuoteAnswered(kept) /\ QuoteAnswered(call) => call.flagSeen = kept.flagSeen

\* rates were read and kept, then a quote was made for a coverage amount
\* that is no tier, and GET /rates would still give the rates kept
C20_Witness ==
    /\ RatesAnswered(kept) /\ QuoteAnswered(call)
    /\ call.quote # NoQuote
    /\ NatToStr(call.req.CoverageAmount)
          \notin DOMAIN pricingRules.BaseRates[call.req.PolicyType].Coverage
    /\ \E rates \in GetAllRates(pricingRules) :
          /\ MarshalRates(pricingRules, rates) # kept.body
          /\ RateSet(MarshalRates(pricingRules, rates)) = RateSet(kept.body)

\* the coverage table a GET /rates body shows for a policy type
BodyTable(body, policyType) ==
    body[CHOOSE i \in DOMAIN body : body[i].policyType = policyType].coverage

\* C19 as stated: whatever a caller does with a value GetRates returned, the
\* rules later calls use are the rules as loaded: a later GET /rates shows
\* the rates an earlier one showed, and a later quote takes its coverage
\* multiplier from the table the earlier GET /rates showed
C19_ReturnedRatesAreSnapshot ==
    RatesAnswered(kept) =>
        /\ \A rates \in GetAllRates(pricingRules) :
              RateSet(MarshalRates(pricingRules, rates)) = RateSet(kept.body)
        /\ QuoteAnswered(call) /\ call.quote # NoQuote =>
              call.quote.Factors.CoverageMultiplier =
                  FactorOr1(BodyTable(kept.body, call.req.PolicyType),
                            NatToStr(call.req.CoverageAmount))

\* after a write to a returned Coverage map, a quote was made with the
\* written multiplier
C19_Witness ==
    /\ RatesAnswered(kept)
    /\ QuoteAnswered(call) /\ call.quote # NoQuote
    /\ NatToStr(call.req.CoverageAmount) = WrittenTier
    /\ BodyTable(kept.body, call.req.PolicyType) # NoTable
    /\ BodyTable(kept.body, call.req.PolicyType)[WrittenTier] # WrittenMultiplier
    /\ call.quote.Factors.CoverageMultiplier = WrittenMultiplier

\* the goroutines running
Running == BagToSet(goroutines)

\* the result a finished CalculateQuote call returned is one that
\* CalculateQuote gives on the rules instance rules alone
FromOneInstance(g, rules) ==
    \E result \in CalculateQuote(rules, g.locals.dynamicRates, g.month, g.arg) :
        /\ result.err = g.err
        /\ g.err = NoError => result.quote = ReturnedQuote(g)

AllReturned == \A g \in Running : g.at = "returned"

\* the number of goroutines, among those of set, counted as often as they run
Number(set) == BagCardinality([g \in set |-> CopiesIn(g, goroutines)])

\* the goroutines inside a reading method that takes lock
ReadingUnder(lock) ==
    { g \in Running : g.op \in Readers /\ g.at = "in" /\ LockOf(Method(g)) = lock }

\* the writers of lock that are at one of places
WritersAt(lock, places) ==
    { g \in Running : g.op \in Writers /\ g.at \in places /\ LockOf(g.op) = lock }

\* a goroutine is in at most one method and holds that method's lock only:
\* each lock is held, and waited for, by exactly the goroutines inside, or
\* waiting in, a method that takes it
OneLockEach ==
    \A lock \in Locks :
        /\ mu[lock].readers = Number(ReadingUnder(lock))
        /\ mu[lock].writer = (WritersAt(lock, {"in"}) # {})
        /\ mu[lock].pending = Number(WritersAt(lock, {"waiting"}))
        /\ mu[lock].writer => mu[lock].readers = 0

\* a reader that cannot enter its next method waits for a writer, never for
\* another reader
ReadersWaitOnlyForWriters ==
    \A g \in Running :
        g.op \in Readers /\ g.at = "out" /\ ~ENABLED (RLock(g) \/ Reject(g))
            => WritersAt(LockOf(Method(g)), {"waiting", "in"}) # {}

\* some goroutine can take a step unless all have returned
NoDeadlock == AllReturned \/ ENABLED NextConcurrent

C21_OneRatePerConfiguredType ==
    RatesAnswered(call) =>
        LET BaseRates == pricingRules.BaseRates
        IN  /\ Len(call.body) = Cardinality(DOMAIN BaseRates)
            /\ \A policyType \in DOMAIN BaseRates :
                  Cardinality({ i \in DOMAIN call.body :
                                    call.body[i].policyType = policyType }) = 1
            /\ \A i \in DOMAIN call.body :
                  /\ call.body[i].policyType \in DOMAIN BaseRates
                  /\ call.body[i].baseRate = BaseRates[call.body[i].policyType].Base
                  /\ call.body[i].coverage = BaseRates[call.body[i].policyType].Coverage

\* GET /rates answered with rates of different base rates: three of them
\* with the last policy type first, or one whose coverage table is absent
C21_Witness ==
    /\ RatesAnswered(call)
    /\ \/ Len(call.body) = 3 /\ call.body[1].policyType = "life"
       \/ \E i \in DOMAIN call.body : call.body[i].coverage = NoTable
    /\ \E i, j \in DOMAIN call.body : call.body[i].baseRate # call.body[j].baseRate

\* C22: the validUntil of every quote is exactly its createdAt plus 30 days
C22_ValidUntilIsCreatedAtPlus30Days ==
    QuoteAnswered(call) /\ call.quote # NoQuote =>
        call.quote.ValidUntil = AddSeconds(call.quote.CreatedAt, ThirtyDays)

\* a quote was made while the clock advanced between the reading for
\* ValidUntil and the reading for CreatedAt
C22_Witness ==
    /\ QuoteAnswered(call) /\ call.quote # NoQuote
    /\ call.quote.CreatedAt.nsec > 0
    /\ call.quote.ValidUntil.nsec < call.quote.CreatedAt.nsec

\* C23: no two CalculateQuote calls return the same quoteId
C23_QuoteIdIsUniquePerCall ==
    /\ QuoteAnswered(kept) /\ kept.quote # NoQuote
    /\ QuoteAnswered(call) /\ call.quote # NoQuote
    => call.quote.QuoteID # kept.quote.QuoteID

\* two quotes were made from different UUIDs that begin alike
C23_Witness ==
    /\ QuoteAnswered(kept) /\ kept.quote # NoQuote
    /\ QuoteAnswered(call) /\ call.quote # NoQuote
    /\ call.uuid # kept.uuid
    /\ call.uuid.head = kept.uuid.head

\* a quote for the request of the documented example, made with the
\* documented rules and a dynamic multiplier of 0.95
ExampleQuoted ==
    /\ QuoteAnswered(call) /\ call.quote # NoQuote
    /\ call.req \in ExampleProbes
    /\ pricingRules.BaseRates = DocumentedBaseRates
    /\ pricingRules.Discounts = DocumentedDiscounts
    /\ call.quote.Factors.DynamicMultiplier = Rat(95, 100)

\* a and b are less than a cent apart
Near(a, b) == Greater(Rat(1, 100), Sub(a, b)) /\ Greater(Rat(1, 100), Sub(b, a))

Decided ==
    { g \in Running : /\ g.op = "CalculateQuote"
                      /\ \/ g.at = "returned" /\ g.err = NoError
                         \/ g.pc > 5
                         \/ g.pc = 5 /\ g.at = "in" }

\* C25 as stated: a quote call that starts after SetDynamicRates(v) has
\* returned and before the next SetDynamicRates call decides according to v
\* whether to apply dynamic pricing
C25_QuoteDecidesByFlagAtItsStart ==
    \A g \in Decided :
        g.locals.flagSet # <<>> => g.locals.dynamicRates = g.locals.flagSet[1]

\* C25, amended: a quote call decides according to the flag as it is when
\* the call reads it; if that is not the v of the SetDynamicRates(v) that
\* had returned when the call started, another SetDynamicRates call has set
\* it since; and whatever the calls to SetDynamicRates, the call returns what
\* a call without them returns for the flag it read
C25_QuoteDecidesByFlagAtItsRead ==
    \A g \in Running :
        g.op = "CalculateQuote" =>
            /\ g.pc = 5 /\ g.at = "in" => g.locals.dynamicRates = dynamicRates
            /\ g \in Decided =>
                  /\ ("GetDynamicPricing" \in { Calls(g)[i] : i \in DOMAIN Calls(g) })
                        = g.locals.dynamicRates
                  /\ g.locals.flagSet # <<>> /\ g.locals.dynamicRates # g.locals.flagSet[1] =>
                        \E w \in Running :
                            /\ w.op = "SetDynamicRates"
                            /\ w.at \in {"in", "returned"}
                            /\ w.arg = g.locals.dynamicRates
            /\ g.at = "returned" => FromOneInstance(g, pricingRules)

\* a quote call that started when SetDynamicRates(TRUE) had returned read
\* the flag after SetDynamicRates(FALSE) had returned as well, and returned
\* a quote
C25_Witness ==
    \E g \in Decided :
        /\ g.at = "returned"
        /\ g.locals.flagSet = <<TRUE>>
        /\ ~g.locals.dynamicRates
        /\ \A w \in Running : w.op = "SetDynamicRates" => w.at = "returned"

\* C26: started with FEATURE_DYNAMIC_RATES not set, empty or not a boolean,
\* and until SetDynamicRates(true) is called, IsDynamicRatesEnabled returns
\* false, as it does on a nil Flags, and every quote has dynamicMultiplier 1
C26_FlagDefaultsToOff ==
    /\ ~IsDynamicRatesEnabled(dynamicRates)
    /\ \A flag \in BOOLEAN : ~IsDynamicRatesEnabledNil(flag)
    /\ QuoteAnswered(call) /\ call.quote # NoQuote =>
          /\ call.quote.Factors.DynamicMultiplier = One
          /\ call.quote.AdjustedRate = call.quote.BaseRate
          /\ "GetDynamicPricing" \notin { call.trace[i] : i \in DOMAIN call.trace }

\* a quote was made with the neutral multiplier although the configuration
\* has dynamic pricing enabled, with factors whose product is not 1
C26_Witness ==
    /\ QuoteAnswered(call) /\ call.quote # NoQuote
    /\ pricingRules.DynamicPricing.Enabled
    /\ calculateDynamicMultiplier(pricingRules, call.monthSeen, call.req) # One
    /\ call.quote.Factors.DynamicMultiplier = One

\* the calls that have processed the payment id and returned it
Processed(id) ==
    { g \in Running : g.at = "returned" /\ g.pc = 4 /\ g.err = NoError /\ g.arg.id = id }

\* C27: under any interleaving at most one ProcessPayment call per payment
\* succeeds, the one CreatePayout makes included; a payment that is not
\* pending stays as it is and is processed by no call
C27_PaymentProcessedAtMostOnce ==
    \A id \in PaymentIDs :
        /\ Number(Processed(id)) <= 1
        /\ id \in DOMAIN LoadedPayments /\ LoadedPayments[id].Status # PaymentStatusPending =>
              payments[id] = LoadedPayments[id] /\ Processed(id) = {}

\* two calls have found the same payment pending and neither has yet set
\* it to completed
C27_Witness ==
    \E id \in PaymentIDs :
        /\ Number({ g \in Running : g.at = "out" /\ g.pc = 3 /\ g.arg.id = id }) >= 2
        /\ payments[id].Status = PaymentStatusPending

\* C28: the dynamic multiplier of a quote differs from 1 only if both the
\* feature flag, as the call read it, and dynamicPricing.enabled of the
\* configuration are true; and on a repository whose rules are not loaded
\* the multiplier computed for the request is 1 whatever the flag
C28_DynamicNeedsFlagAndConfig ==
    /\ Quoted(call) /\ ~(call.flagSeen /\ pricingRules.DynamicPricing.Enabled) =>
          call.quote.Factors.DynamicMultiplier = One
    /\ QuoteAnswered(call) =>
          \A flag \in BOOLEAN :
              DynamicMultiplier(NoRules, flag, call.monthSeen, call.req) = One

\* a quote made with the flag off under a configuration that has dynamic
\* pricing enabled, with factors whose product is not 1
C28_Witness ==
    /\ Quoted(call)
    /\ ~call.flagSeen /\ pricingRules.DynamicPricing.Enabled
    /\ ThreeFactorProduct(call) # One
    /\ call.quote.Factors.DynamicMultiplier = One

\* the rules of validation in their fixed order, each with whether the
\* request violates it and the error that reports it
Rules(req) ==
    << [violated |-> req.PolicyType \notin {"auto", "home", "life"},
        error |-> "invalid policy type: " \o req.PolicyType
                  \o " (must be auto, home, or life)"],
       [violated |-> req.CoverageAmount <= 0,
        error |-> "coverage amount must be greater than 0"],
       [violated |-> req.CustomerAge < 18 \/ req.CustomerAge > 120,
        error |-> "customer age must be between 18 and 120"],
       [violated |-> req.RiskScore < 1 \/ req.RiskScore > 5,
        error |-> "risk score must be between 1 and 5"] >>

\* the positions of the rules the request violates
ViolatedRules(req) == { i \in DOMAIN Rules(req) : Rules(req)[i].violated }

\* C29: for a request that violates one or several rules, the error returned
\* is the error of the first violated rule in the order policyType,
\* coverageAmount, customerAge, riskScore, and of that rule alone
C29_FirstViolatedRuleIsReported ==
    QuoteAnswered(call) /\ ViolatedRules(call.req) # {} =>
        LET first == CHOOSE i \in ViolatedRules(call.req) :
                         \A j \in ViolatedRules(call.req) : i <= j
        IN  /\ call.err = Rules(call.req)[first].error
            /\ \A j \in ViolatedRules(call.req) \ {first} :
                  call.err # Rules(call.req)[j].error
            /\ call.quote = NoQuote /\ call.trace = <<>>

\* a request that violates the age rule and the risk rule was answered
\* with the error of the age rule
C29_Witness ==
    /\ QuoteAnswered(call)
    /\ ViolatedRules(call.req) = {3, 4}
    /\ call.err = "customer age must be between 18 and 120"

\* a is at most b: the numerator of b - a is not negative
AtMost(a, b) == Sub(b, a)[1] >= 0

\* C30: with the documented discount schedule and a non-negative adjusted
\* rate, 0 <= discountAmount <= 0.46 x adjustedRate and
\* 0 <= finalPremium <= adjustedRate, whatever multiPolicy, loyaltyYears,
\* riskScore and paperlessBill are
C30_DocumentedDiscountsKeepPremiumNonNegative ==
    /\ Quoted(call)
    /\ pricingRules.Discounts = DocumentedDiscounts
    /\ AtMost(Zero, call.quote.AdjustedRate)
    => /\ AtMost(Zero, call.quote.Discount)
       /\ AtMost(call.quote.Discount, Mul(Rat(46, 100), call.quote.AdjustedRate))
       /\ AtMost(Zero, call.quote.FinalPremium)
       /\ AtMost(call.quote.FinalPremium, call.quote.AdjustedRate)

\* a quote with all four discounts, the loyalty discount at its highest:
\* the discount is 0.46 of the adjusted rate
C30_Witness ==
    /\ Quoted(call)
    /\ pricingRules.Discounts = DocumentedDiscounts
    /\ call.req.MultiPolicy /\ call.req.PaperlessBill
    /\ call.req.RiskScore = 1 /\ call.req.LoyaltyYears >= 10
    /\ ~AtMost(call.quote.AdjustedRate, Zero)
    /\ call.quote.Discount = Mul(Rat(46, 100), call.quote.AdjustedRate)

====
